---- MODULE Spec2Model ----
(***************************************************************************)
(* Collaboration room (worker/SpaceRoom.ts) and client sync engine         *)
(* (src/sync/SyncClient.ts, EditorApp) of ddrscott/editor.                 *)
(*                                                                         *)
(* RoomSpec is the room alone, driven by every message a socket can        *)
(* deliver, with a history of its events.  Spec is the room together with  *)
(* the browsers: what the room receives is what the editors send.          *)
(* ClientSpec is the room with sync clients whose send methods any caller  *)
(* may invoke at any moment.  RetrySpec is the connection life of a sync   *)
(* client (attempts, opens, failures, the reconnect timer) and RetryLive   *)
(* adds that an armed timer fires.  FaultSpec is the room with sockets     *)
(* whose sends throw and with frames that are no ClientMessage.  SpaceSpec *)
(* is a space from its creation through the Worker's /new route.           *)
(* OrderSpec is the room under tab messages over three tab ids, ColorSpec  *)
(* the room with a palette of two colors.  LifeSpec is RetrySpec with a    *)
(* caller that may call destroy() at any moment, and EchoSpec is editors   *)
(* that type while a peer sends a tab-rename whose title is a number.      *)
(*                                                                         *)
(* JavaScript values are written as follows: an absent or undefined        *)
(* optional field is UNDEF, null is NULL, booleans held in optional        *)
(* fields are JTRUE / JFALSE, a number in the place of a string is NUMBER, *)
(* a null DocumentState / LayoutState is                                   *)
(* NoDoc / NoLayout.  Client ids (crypto.randomUUID) are 1, 2, ... in the  *)
(* order the room hands them out; 0 is "no id".                            *)
(***************************************************************************)
EXTENDS Integers, Sequences, FiniteSets, TLC

VARIABLES
  sessions,       \* SpaceRoom.sessions: client id -> Session (awareness fields)
  documentState,  \* SpaceRoom.documentState
  layoutState,    \* SpaceRoom.layoutState
  db,             \* the actor's SQLite storage: document_state, tabs, layout_state
  sockets,        \* server end of every accepted WebSocket: "open" | "stale" | "errored" | "closed"
  outbox,         \* per socket: what the room has sent on it and the client has not yet taken
  nextId,         \* number of client ids handed out so far
  restarts,       \* number of actor restarts so far
  handled,        \* number of message events the room has handled
  last,           \* history: the last room event (connect, message, close, error, restart)
  pre,            \* history: room state right before the last room event
  written,        \* history: per tab id, what tab-create and later writes gave the tab
  closed,         \* history: tab ids closed by tab-close and not named by a tab-create or full-sync since
  roundTrip,      \* history: set when a tab-restore directly follows a tab-hide of the same tab
  repeated,       \* history: set when a full-sync directly follows a full-sync with the same state
  client,         \* per browser: its SyncClient fields and its EditorApp panes
  inbox,          \* per socket: what the client has sent on it and the room has not yet handled
  ops,            \* number of user operations performed in the editors so far
  taken           \* history: per socket, the room's messages the client has taken, in order

roomVars == <<sessions, documentState, layoutState, db, sockets, outbox, nextId, restarts>>
histVars == <<last, pre, written, closed, roundTrip, repeated>>
clientVars == <<client, inbox, ops, taken>>
vars == <<roomVars, handled, histVars, clientVars>>

(* ------------------------------ bounds -------------------------------- *)
MaxConns == 2
MaxClients == 2
MaxMsgs == 2
MaxTabs == 3
MaxRestarts == 1

(* --------------------------- value encodings -------------------------- *)
UNDEF == "undefined"
NULL == "null"
JTRUE == "true"
JFALSE == "false"
\* a JSON number where the types of the protocol have a string
NUMBER == "(number)"
NoDoc == [isNull |-> TRUE]
NoLayout == [isNull |-> TRUE]
NoTab == [isNone |-> TRUE]
NoTrip == [isNone |-> TRUE]

TabIds == {"t1", "t2"}
Colors == {"#FF6B6B"}

ConnIds == 1..MaxConns

Truthy(v) == v = JTRUE

Tab(id, title, content, hidden, isPreview, sourceTabId) ==
  [id |-> id, title |-> title, content |-> content, hidden |-> hidden,
   isPreview |-> isPreview, sourceTabId |-> sourceTabId]

\* tabs.find(t => t.id === tabId): index of the first match, 0 when there is none
FindTab(tabs, tabId) ==
  IF \E i \in 1..Len(tabs) : tabs[i].id = tabId
  THEN CHOOSE i \in 1..Len(tabs) :
         /\ tabs[i].id = tabId
         /\ \A j \in 1..(i - 1) : tabs[j].id # tabId
  ELSE 0

\* tabs.filter(t => t.id !== tabId)
RECURSIVE FilterOut(_, _)
FilterOut(tabs, tabId) ==
  IF tabs = <<>> THEN <<>>
  ELSE IF Head(tabs).id = tabId THEN FilterOut(Tail(tabs), tabId)
       ELSE <<Head(tabs)>> \o FilterOut(Tail(tabs), tabId)

(* ------------------------------ storage ------------------------------- *)
EmptyDb == [document_state |-> <<>>, tabs |-> {}, layout_state |-> <<>>]

\* SELECT ... FROM tabs ORDER BY sort_order
RECURSIVE OrderBySortOrder(_)
OrderBySortOrder(rows) ==
  IF rows = {} THEN <<>>
  ELSE LET r == CHOOSE x \in rows : \A y \in rows : x.sort_order <= y.sort_order
       IN <<r>> \o OrderBySortOrder(rows \ {r})

\* JSON.stringify(layoutState.layout): a property whose value is undefined is
\* left out of the text; children are written in order
RECURSIVE StringifyLayout(_)
StringifyLayout(node) ==
  [props |-> {<<k, node[k]>> : k \in {f \in {"type", "direction", "paneId"} : node[f] # UNDEF}},
   children |-> [i \in 1..Len(node.children) |-> StringifyLayout(node.children[i])],
   sizes |-> node.sizes]

\* JSON.parse(layout_json): a property the text does not carry reads as undefined
RECURSIVE ParseLayout(_)
ParseLayout(text) ==
  LET prop(k) == IF \E p \in text.props : p[1] = k
                 THEN (CHOOSE p \in text.props : p[1] = k)[2]
                 ELSE UNDEF
  IN [type |-> prop("type"), direction |-> prop("direction"), paneId |-> prop("paneId"),
      children |-> [i \in 1..Len(text.children) |-> ParseLayout(text.children[i])],
      sizes |-> text.sizes]

\* JSON.stringify(layoutState.panes) / JSON.parse(panes_json)
StringifyPanes(panes) ==
  [i \in 1..Len(panes) |->
     [props |-> {<<"id", panes[i].id>>, <<"activeTabId", panes[i].activeTabId>>},
      tabIds |-> panes[i].tabIds]]

ParsePanes(text) ==
  [i \in 1..Len(text) |->
     [id |-> (CHOOSE p \in text[i].props : p[1] = "id")[2],
      tabIds |-> text[i].tabIds,
      activeTabId |-> (CHOOSE p \in text[i].props : p[1] = "activeTabId")[2]]]

LoadedTab(row) ==
  Tab(row.id, row.title, row.content, IF row.hidden = 1 THEN JTRUE ELSE JFALSE, UNDEF, UNDEF)

LoadDocument(store) ==
  LET docRows == store.document_state
      rows == OrderBySortOrder(store.tabs)
      tabs == [i \in 1..Len(rows) |-> LoadedTab(rows[i])]
  IN IF Len(docRows) > 0 \/ Len(tabs) > 0
     THEN [tabs |-> tabs,
           activeTabId |-> IF Len(docRows) > 0 THEN docRows[1].active_tab_id ELSE NULL,
           tabCounter |-> IF Len(docRows) > 0 THEN docRows[1].tab_counter ELSE 0]
     ELSE NoDoc

LoadLayout(store) ==
  IF Len(store.layout_state) > 0
  THEN [layout |-> ParseLayout(store.layout_state[1].layout_json),
        panes |-> ParsePanes(store.layout_state[1].panes_json)]
  ELSE NoLayout

\* faulty variant: the rows are numbered downwards
UpsertTabDescending(table, tab, index) ==
  {r \in table : r.id # tab.id} \cup
  {[id |-> tab.id, title |-> tab.title, content |-> tab.content,
    hidden |-> IF Truthy(tab.hidden) THEN 1 ELSE 0, sort_order |-> 0 - index]}

UpsertTab(table, tab, index) ==
  {r \in table : r.id # tab.id} \cup
  {[id |-> tab.id, title |-> tab.title, content |-> tab.content,
    hidden |-> IF Truthy(tab.hidden) THEN 1 ELSE 0, sort_order |-> index]}

RECURSIVE UpsertTabs(_, _, _)
UpsertTabs(table, tabs, i) ==
  IF i > Len(tabs) THEN table
  ELSE UpsertTabs(UpsertTab(table, tabs[i], i - 1), tabs, i + 1)

PersistState(doc, store) ==
  IF doc = NoDoc THEN store
  ELSE LET currentIds == {doc.tabs[i].id : i \in 1..Len(doc.tabs)}
           kept == {r \in store.tabs : r.id \in currentIds}
       IN [store EXCEPT
             !.document_state = <<[active_tab_id |-> doc.activeTabId,
                                   tab_counter |-> doc.tabCounter]>>,
             !.tabs = UpsertTabs(kept, doc.tabs, 1)]

\* faulty variant: storing the layout also rewrites the tab rows in the order
\* of the layout's panes, dropping the rows no pane names
PersistLayoutAndTabs(layout, store) ==
  IF layout = NoLayout THEN store
  ELSE LET named == UNION {{layout.panes[k].tabIds[i] : i \in 1..Len(layout.panes[k].tabIds)} :
                             k \in 1..Len(layout.panes)}
       IN [store EXCEPT !.layout_state =
                          <<[layout_json |-> StringifyLayout(layout.layout),
                             panes_json |-> StringifyPanes(layout.panes)]>>,
                        !.tabs = {r \in @ : r.id \in named}]

PersistLayout(layout, store) ==
  IF layout = NoLayout THEN store
  ELSE [store EXCEPT !.layout_state =
          <<[layout_json |-> StringifyLayout(layout.layout),
             panes_json |-> StringifyPanes(layout.panes)]>>]

(* --------------------------- client messages -------------------------- *)
\* The ClientMessage union of SpaceRoom.ts, over the small value sets above.
\* tab-create may carry isPreview / sourceTabId (SyncClient.sendTabCreate).
TabUpdateMsgs(from) ==
  {[type |-> "tab-update", tabId |-> t, content |-> f[1], title |-> f[2], from |-> from] :
     t \in TabIds, f \in {<<"a", UNDEF>>, <<"b", UNDEF>>, <<UNDEF, "y">>}}

TabCreateMsgs(from) ==
  {[type |-> "tab-create", tabId |-> f[1], title |-> "y", content |-> f[2],
    isPreview |-> f[3], sourceTabId |-> f[4], from |-> from] :
     f \in {<<"t1", "b", UNDEF, UNDEF>>, <<"t2", "b", UNDEF, UNDEF>>,
            <<"t2", "", JTRUE, "t1">>}}

TabIdMsgs(from) ==
  [type : {"tab-close", "tab-hide", "tab-restore"}, tabId : TabIds, from : {from}]

TabRenameMsgs(from) ==
  [type : {"tab-rename"}, tabId : TabIds, title : {"y"}, from : {from}]

FullSyncStates ==
  { [tabs |-> <<>>, activeTabId |-> NULL, tabCounter |-> 0],
    [tabs |-> <<Tab("t2", "y", "b", JTRUE, UNDEF, UNDEF),
                Tab("t1", "x", "", UNDEF, JTRUE, "t2")>>,
     activeTabId |-> "t2", tabCounter |-> 2] }

FullSyncMsgs(from) == [type : {"full-sync"}, state : FullSyncStates, from : {from}]

PaneNode(paneId) ==
  [type |-> "pane", direction |-> UNDEF, paneId |-> paneId, children |-> <<>>, sizes |-> <<>>]

LayoutPayloads ==
  { [layout |-> PaneNode("p1"),
     panes |-> <<[id |-> "p1", tabIds |-> <<"t1">>, activeTabId |-> "t1"]>>],
    [layout |-> [type |-> "split", direction |-> "horizontal", paneId |-> UNDEF,
                 children |-> <<PaneNode("p1"), PaneNode("p2")>>, sizes |-> <<50, 50>>],
     panes |-> <<[id |-> "p1", tabIds |-> <<"t1">>, activeTabId |-> "t1"],
                 [id |-> "p2", tabIds |-> <<>>, activeTabId |-> NULL]>>] }

LayoutUpdateMsgs(from) ==
  {[type |-> "layout-update", layout |-> l.layout, panes |-> l.panes, from |-> from] :
     l \in LayoutPayloads}

MutationTypes ==
  {"tab-update", "tab-create", "tab-close", "tab-hide", "tab-restore", "tab-rename",
   "full-sync", "layout-update"}

ClientMessages(from) ==
  TabUpdateMsgs(from) \cup TabCreateMsgs(from) \cup TabIdMsgs(from) \cup
  TabRenameMsgs(from) \cup FullSyncMsgs(from) \cup LayoutUpdateMsgs(from)

\* the tab messages over three tab ids, one payload each
OrderIds == {"t1", "t2", "t3"}

OrderMsgs(from) ==
  {[type |-> "tab-update", tabId |-> t, content |-> "b", title |-> UNDEF, from |-> from] :
     t \in OrderIds} \cup
  {[type |-> "tab-create", tabId |-> t, title |-> "y", content |-> "b",
    isPreview |-> UNDEF, sourceTabId |-> UNDEF, from |-> from] : t \in OrderIds} \cup
  [type : {"tab-close", "tab-hide", "tab-restore"}, tabId : OrderIds, from : {from}] \cup
  [type : {"tab-rename"}, tabId : OrderIds, title : {"x"}, from : {from}]

\* the types handleMessage has a case for
KnownTypes == MutationTypes \cup {"awareness"}

\* a frame whose text JSON.parse rejects
NotJson == [type |-> "(not JSON)"]

\* frames that are no ClientMessage: text that is not JSON, a JSON object of
\* no known type, and a full-sync that carries no state (message.state is
\* undefined, which the room's tests treat as null)
MalformedMsgs(from) ==
  { NotJson,
    [type |-> "ping", from |-> from],
    [type |-> "full-sync", state |-> NoDoc, from |-> from] }

(* ------------------------- the room's handlers ------------------------ *)
\* Each case of handleMessage yields the new documentState and whether
\* persistState() is called.

\* faulty variant: an update for a tab that is not there adds the tab
CaseTabUpdateUpsert(doc, message) ==
  LET i == IF doc = NoDoc THEN 0 ELSE FindTab(doc.tabs, message.tabId)
  IN IF doc = NoDoc THEN [doc |-> doc, persist |-> FALSE]
     ELSE IF i = 0
     THEN [doc |-> [doc EXCEPT !.tabs = Append(@, Tab(message.tabId, message.title,
                                                      message.content, UNDEF, UNDEF, UNDEF))],
           persist |-> TRUE]
     ELSE [doc |-> [doc EXCEPT
                      !.tabs[i].content =
                        IF message.content # UNDEF THEN message.content ELSE @,
                      !.tabs[i].title =
                        IF message.title # UNDEF THEN message.title ELSE @],
           persist |-> TRUE]

CaseTabUpdate(doc, message) ==
  LET i == IF doc = NoDoc THEN 0 ELSE FindTab(doc.tabs, message.tabId)
  IN IF i = 0 THEN [doc |-> doc, persist |-> FALSE]
     ELSE [doc |-> [doc EXCEPT
                      !.tabs[i].content =
                        IF message.content # UNDEF THEN message.content ELSE @,
                      !.tabs[i].title =
                        IF message.title # UNDEF THEN message.title ELSE @],
           persist |-> TRUE]

CaseTabCreate(doc, message) ==
  LET d == IF doc = NoDoc THEN [tabs |-> <<>>, activeTabId |-> NULL, tabCounter |-> 0] ELSE doc
  IN [doc |-> [d EXCEPT !.tabs = Append(@, Tab(message.tabId, message.title, message.content,
                                               UNDEF, UNDEF, UNDEF))],
      persist |-> TRUE]

CaseTabClose(doc, message) ==
  IF doc = NoDoc THEN [doc |-> doc, persist |-> FALSE]
  ELSE [doc |-> [doc EXCEPT !.tabs = FilterOut(@, message.tabId)], persist |-> TRUE]

SetHidden(doc, tabId, value) ==
  LET i == IF doc = NoDoc THEN 0 ELSE FindTab(doc.tabs, tabId)
  IN IF i = 0 THEN [doc |-> doc, persist |-> FALSE]
     ELSE [doc |-> [doc EXCEPT !.tabs[i].hidden = value], persist |-> TRUE]

CaseTabHide(doc, message) == SetHidden(doc, message.tabId, JTRUE)

\* faulty variant: the restored tab is taken out and pushed at the end
CaseTabRestoreReappend(doc, message) ==
  LET i == IF doc = NoDoc THEN 0 ELSE FindTab(doc.tabs, message.tabId)
  IN IF i = 0 THEN [doc |-> doc, persist |-> FALSE]
     ELSE [doc |-> [doc EXCEPT !.tabs = Append(FilterOut(@, message.tabId),
                                                [doc.tabs[i] EXCEPT !.hidden = JFALSE])],
           persist |-> TRUE]

CaseTabRestore(doc, message) == SetHidden(doc, message.tabId, JFALSE)

CaseTabRename(doc, message) ==
  LET i == IF doc = NoDoc THEN 0 ELSE FindTab(doc.tabs, message.tabId)
  IN IF i = 0 THEN [doc |-> doc, persist |-> FALSE]
     ELSE [doc |-> [doc EXCEPT !.tabs[i].title = message.title], persist |-> TRUE]

\* faulty variant: the tabs of the payload are added to the tabs already held
CaseFullSyncMerge(doc, message) ==
  [doc |-> IF doc = NoDoc THEN message.state
           ELSE [message.state EXCEPT !.tabs = doc.tabs \o @],
   persist |-> TRUE]

CaseFullSync(doc, message) == [doc |-> message.state, persist |-> TRUE]

\* the document cases of the switch in handleMessage
DocumentCase(doc, message) ==
  CASE message.type = "tab-update" -> CaseTabUpdate(doc, message)
    [] message.type = "tab-create" -> CaseTabCreate(doc, message)
    [] message.type = "tab-close" -> CaseTabClose(doc, message)
    [] message.type = "tab-hide" -> CaseTabHide(doc, message)
    [] message.type = "tab-restore" -> CaseTabRestore(doc, message)
    [] message.type = "tab-rename" -> CaseTabRename(doc, message)
    [] message.type = "full-sync" -> CaseFullSync(doc, message)
    [] OTHER -> [doc |-> doc, persist |-> FALSE]

\* what travels on a socket from the room: the message and, for a relayed
\* mutation, the position of its message event in the room's handling order
\* and the session whose socket delivered it (0 and 0 for the room's own)
Envelope(message, seq, origin) == [msg |-> message, seq |-> seq, origin |-> origin]

\* faulty variant: nobody is excluded
BroadcastToAll(out, registry, excludeClientId, message, seq) ==
  [s \in DOMAIN out |->
     IF s \in DOMAIN registry
     THEN Append(out[s], Envelope(message, seq, excludeClientId))
     ELSE out[s]]

\* faulty variant: the test on the sender is inverted
BroadcastToSender(out, registry, excludeClientId, message, seq) ==
  [s \in DOMAIN out |->
     IF s \in DOMAIN registry /\ s = excludeClientId
     THEN Append(out[s], Envelope(message, seq, excludeClientId))
     ELSE out[s]]

\* faulty variant: the relay overtakes what is already queued on the socket
BroadcastNewestFirst(out, registry, excludeClientId, message, seq) ==
  [s \in DOMAIN out |->
     IF s \in DOMAIN registry /\ s # excludeClientId
     THEN <<Envelope(message, seq, excludeClientId)>> \o out[s]
     ELSE out[s]]

\* session.socket.send(data) throws: the peer of the socket is gone and its
\* close event has not been delivered yet
Throws(s) == sockets[s] = "stale"

\* broadcast(excludeClientId, message): a send that throws is caught and
\* delivers nothing
Broadcast(out, registry, excludeClientId, message, seq) ==
  [s \in DOMAIN out |->
     IF s \in DOMAIN registry /\ s # excludeClientId /\ ~Throws(s)
     THEN Append(out[s], Envelope(message, seq, excludeClientId))
     ELSE out[s]]

AwarenessEntry(session) ==
  [color |-> session.color, tabId |-> session.tabId,
   cursor |-> session.cursor, selection |-> session.selection]

\* faulty variant: each session is sent the table without its own entry
BroadcastAwarenessOthersOnly(out, registry) ==
  [s \in DOMAIN out |->
     IF s \in DOMAIN registry
     THEN Append(out[s],
                 Envelope([type |-> "awareness",
                           clients |-> [id \in DOMAIN registry \ {s} |->
                                          AwarenessEntry(registry[id])]], 0, 0))
     ELSE out[s]]

\* faulty variant: the first send that throws ends the forEach, so the
\* sessions registered after that one are not sent to
BroadcastAwarenessAborting(out, registry) ==
  LET message == [type |-> "awareness",
                  clients |-> [id \in DOMAIN registry |-> AwarenessEntry(registry[id])]]
  IN [s \in DOMAIN out |->
        IF s \in DOMAIN registry /\ \A r \in DOMAIN registry : r <= s => ~Throws(r)
        THEN Append(out[s], Envelope(message, 0, 0))
        ELSE out[s]]

\* broadcastAwareness(): the whole table, to every registered session; a send
\* that throws is caught and delivers nothing
BroadcastAwareness(out, registry) ==
  LET message == [type |-> "awareness",
                  clients |-> [id \in DOMAIN registry |-> AwarenessEntry(registry[id])]]
  IN [s \in DOMAIN out |->
        IF s \in DOMAIN registry /\ ~Throws(s)
        THEN Append(out[s], Envelope(message, 0, 0))
        ELSE out[s]]

\* faulty variant: the awareness of the sync names the new session too
SyncMessageWithSelf(registry, doc, layout, clientId) ==
  [type |-> "sync", state |-> doc, layout |-> layout,
   awareness |-> [id \in DOMAIN registry |-> AwarenessEntry(registry[id])],
   clientId |-> clientId]

\* sendSync(socket, clientId)
SyncMessage(registry, doc, layout, clientId) ==
  [type |-> "sync", state |-> doc, layout |-> layout,
   awareness |-> [id \in DOMAIN registry \ {clientId} |-> AwarenessEntry(registry[id])],
   clientId |-> clientId]

AwarenessMsgs(from) ==
  { [type |-> "awareness", tabId |-> "t1", cursor |-> "1:1", selection |-> UNDEF,
     from |-> from] }

(* ------------------------------ history ------------------------------- *)
Snapshot ==
  [doc |-> documentState, layout |-> layoutState, db |-> db, outbox |-> outbox,
   sessions |-> sessions]

\* What the messages handled so far have written to each tab id since the
\* tab-create that added it: cleared by tab-close and by a full-sync.
WrittenAfter(w, message) ==
  [t \in TabIds |->
     CASE message.type = "full-sync" -> NoTab
       [] message.type \in {"layout-update", "awareness"} -> w[t]
       [] message.tabId # t -> w[t]
       [] message.type = "tab-create" ->
            [title |-> message.title, content |-> message.content,
             isPreview |-> message.isPreview, sourceTabId |-> message.sourceTabId]
       [] message.type = "tab-close" -> NoTab
       [] w[t] = NoTab -> NoTab
       [] message.type = "tab-update" ->
            [w[t] EXCEPT !.content = IF message.content # UNDEF THEN message.content ELSE @,
                         !.title = IF message.title # UNDEF THEN message.title ELSE @]
       [] message.type = "tab-rename" -> [w[t] EXCEPT !.title = message.title]
       [] OTHER -> w[t]]

\* Tab ids removed by tab-close and not named again by a tab-create or a full-sync
ClosedAfter(c, message) ==
  CASE message.type = "tab-close" -> c \cup {message.tabId}
    [] message.type = "tab-create" -> c \ {message.tabId}
    [] message.type = "full-sync" ->
         c \ {message.state.tabs[i].id : i \in 1..Len(message.state.tabs)}
    [] OTHER -> c

\* tab-restore(T) handled right after tab-hide(T), T present before the hide
RoundTripAfter(clientId, message) ==
  IF /\ message.type = "tab-restore"
     /\ last.kind = "message" /\ ~last.dropped
     /\ last.msg.type = "tab-hide" /\ last.msg.tabId = message.tabId
     /\ pre.doc # NoDoc /\ FindTab(pre.doc.tabs, message.tabId) # 0
  THEN [tabId |-> message.tabId, before |-> pre.doc]
  ELSE NoTrip

\* full-sync handled right after a full-sync that carried the same state
RepeatedAfter(clientId, message) ==
  /\ message.type = "full-sync"
  /\ last.kind = "message" /\ ~last.dropped
  /\ last.msg.type = "full-sync" /\ last.msg.state = message.state

\* the history of a run of the room: every room event is recorded with the
\* state it found
Observe(event) ==
  /\ last' = event
  /\ pre' = Snapshot
  /\ roundTrip' = NoTrip
  /\ repeated' = FALSE
  /\ UNCHANGED <<written, closed>>

ObserveMessage(s, message) ==
  /\ last' = [kind |-> "message", msg |-> message, from |-> s,
              dropped |-> s \notin DOMAIN sessions]
  /\ pre' = Snapshot
  /\ written' = IF s \in DOMAIN sessions THEN WrittenAfter(written, message) ELSE written
  /\ closed' = IF s \in DOMAIN sessions THEN ClosedAfter(closed, message) ELSE closed
  /\ roundTrip' = IF s \in DOMAIN sessions THEN RoundTripAfter(s, message) ELSE NoTrip
  /\ repeated' = IF s \in DOMAIN sessions THEN RepeatedAfter(s, message) ELSE FALSE

(* --------------------------- the room's events ------------------------ *)
\* faulty variant: a document message is relayed only when it changed the store
HandleMessageRelayingChanges(clientId, message) ==
  IF clientId \notin DOMAIN sessions \/ message.type \notin KnownTypes
  THEN UNCHANGED <<sessions, documentState, layoutState, db, outbox>>
  ELSE
    CASE message.type = "awareness" ->
           LET registry == [sessions EXCEPT ![clientId].tabId = message.tabId,
                                            ![clientId].cursor = message.cursor,
                                            ![clientId].selection = message.selection]
           IN /\ sessions' = registry
              /\ outbox' = BroadcastAwareness(outbox, registry)
              /\ UNCHANGED <<documentState, layoutState, db>>
      [] message.type = "layout-update" ->
           LET layout == [layout |-> message.layout, panes |-> message.panes]
           IN /\ layoutState' = layout
              /\ db' = PersistLayout(layout, db)
              /\ outbox' = Broadcast(outbox, sessions, clientId, message, handled + 1)
              /\ UNCHANGED <<sessions, documentState>>
      [] OTHER ->
           LET r == DocumentCase(documentState, message)
           IN /\ documentState' = r.doc
              /\ db' = IF r.persist THEN PersistState(r.doc, db) ELSE db
              /\ outbox' = IF r.persist
                           THEN Broadcast(outbox, sessions, clientId, message, handled + 1)
                           ELSE outbox
              /\ UNCHANGED <<sessions, layoutState>>

\* faulty variant: the session is not looked up before the switch
HandleMessageOfAnySocket(clientId, message) ==
  IF message.type \notin KnownTypes
  THEN UNCHANGED <<sessions, documentState, layoutState, db, outbox>>
  ELSE
    CASE message.type = "awareness" ->
           /\ outbox' = BroadcastAwareness(outbox, sessions)
           /\ UNCHANGED <<sessions, documentState, layoutState, db>>
      [] message.type = "layout-update" ->
           LET layout == [layout |-> message.layout, panes |-> message.panes]
           IN /\ layoutState' = layout
              /\ db' = PersistLayout(layout, db)
              /\ outbox' = Broadcast(outbox, sessions, clientId, message, handled + 1)
              /\ UNCHANGED <<sessions, documentState>>
      [] OTHER ->
           LET r == DocumentCase(documentState, message)
           IN /\ documentState' = r.doc
              /\ db' = IF r.persist THEN PersistState(r.doc, db) ELSE db
              /\ outbox' = Broadcast(outbox, sessions, clientId, message, handled + 1)
              /\ UNCHANGED <<sessions, layoutState>>

\* handleMessage(clientId, message), run by the socket's message listener
HandleMessage(clientId, message) ==
  IF clientId \notin DOMAIN sessions \/ message.type \notin KnownTypes
  THEN UNCHANGED <<sessions, documentState, layoutState, db, outbox>>
  ELSE
    CASE message.type = "awareness" ->
           LET registry == [sessions EXCEPT ![clientId].tabId = message.tabId,
                                            ![clientId].cursor = message.cursor,
                                            ![clientId].selection = message.selection]
           IN /\ sessions' = registry
              /\ outbox' = BroadcastAwareness(outbox, registry)
              /\ UNCHANGED <<documentState, layoutState, db>>
      [] message.type = "layout-update" ->
           LET layout == [layout |-> message.layout, panes |-> message.panes]
           IN /\ layoutState' = layout
              /\ db' = PersistLayout(layout, db)
              /\ outbox' = Broadcast(outbox, sessions, clientId, message, handled + 1)
              /\ UNCHANGED <<sessions, documentState>>
      [] OTHER ->
           LET r == DocumentCase(documentState, message)
           IN /\ documentState' = r.doc
              /\ db' = IF r.persist THEN PersistState(r.doc, db) ELSE db
              /\ outbox' = Broadcast(outbox, sessions, clientId, message, handled + 1)
              /\ UNCHANGED <<sessions, layoutState>>

\* a tab list is capped at MaxTabs records
WithinTabBound(message) ==
  IF message.type = "tab-create" /\ documentState # NoDoc
  THEN Len(documentState.tabs) < MaxTabs
  ELSE TRUE

\* message event on an accepted socket: JSON.parse, then handleMessage, and
\* whatever either throws is caught
RoomMessage(s, message) ==
  /\ sockets[s] \in {"open", "errored"}
  /\ handled < MaxMsgs
  /\ WithinTabBound(message)
  /\ IF message = NotJson
     THEN UNCHANGED <<sessions, documentState, layoutState, db, outbox>>
     ELSE HandleMessage(s, message)
  /\ handled' = handled + 1
  /\ UNCHANGED <<sockets, nextId, restarts>>

\* handleWebSocket(): accept, register the session, send the initial sync
RoomConnect(color) ==
  /\ nextId < MaxConns
  /\ LET clientId == nextId + 1
         registry == [id \in DOMAIN sessions \cup {clientId} |->
                        IF id = clientId
                        THEN [color |-> color, tabId |-> UNDEF, cursor |-> UNDEF,
                              selection |-> UNDEF]
                        ELSE sessions[id]]
     IN /\ nextId' = clientId
        /\ sessions' = registry
        /\ sockets' = [sockets EXCEPT ![clientId] = "open"]
        /\ outbox' = [outbox EXCEPT ![clientId] =
                        <<Envelope(SyncMessage(registry, documentState, layoutState, clientId), 0, 0)>>]
  /\ UNCHANGED <<documentState, layoutState, db, restarts, handled>>

Unregister(registry, clientId) == [id \in DOMAIN registry \ {clientId} |-> registry[id]]

\* close listener: sessions.delete(clientId); broadcastAwareness()
RoomClose(s) ==
  /\ sockets[s] \in {"open", "errored", "stale"}
  /\ sockets' = [sockets EXCEPT ![s] = "closed"]
  /\ sessions' = Unregister(sessions, s)
  /\ outbox' = BroadcastAwareness(outbox, Unregister(sessions, s))
  /\ UNCHANGED <<documentState, layoutState, db, nextId, restarts, handled>>

\* error listener: sessions.delete(clientId), nothing else
RoomError(s) ==
  /\ sockets[s] = "open"
  /\ sockets' = [sockets EXCEPT ![s] = "errored"]
  /\ sessions' = Unregister(sessions, s)
  /\ UNCHANGED <<documentState, layoutState, db, outbox, nextId, restarts, handled>>

\* the peer of an accepted socket goes away; until the close event is
\* delivered the session stays registered and a send on the socket throws
RoomBreak(s) ==
  /\ sockets[s] = "open"
  /\ sockets' = [sockets EXCEPT ![s] = "stale"]
  /\ UNCHANGED <<sessions, documentState, layoutState, db, outbox, nextId, restarts, handled>>

\* the actor is evicted and constructed again: its memory is gone, its sockets
\* are closed, and the constructor runs initializeSchema() and loadState()
RoomRestart ==
  /\ restarts < MaxRestarts
  /\ restarts' = restarts + 1
  /\ sessions' = <<>>
  /\ sockets' = [s \in ConnIds |-> IF sockets[s] = "none" THEN "none" ELSE "closed"]
  /\ documentState' = LoadDocument(db)
  /\ layoutState' = LoadLayout(db)
  /\ UNCHANGED <<db, outbox, nextId, handled>>

(* ------------------------------ the editor ---------------------------- *)
\* One browser: the SyncClient fields (socket, connected, clientId) and the
\* EditorApp state the remote handlers work on.  A tab's content is the text
\* of its Monaco model; layout is the pane tree under layoutRoot as
\* serializeLayoutForSync reads it.
Clients == 1..MaxClients
PaneIds == {"p1", "p2"}
EditContents == {"b", "c"}
Titles == {"x", "y"}

IsSet(v) == v \notin {UNDEF, NULL, "", JFALSE}

Pane(id, tabs, activeTabId) == [id |-> id, tabs |-> tabs, activeTabId |-> activeTabId]

\* readyState is the state of the WebSocket that connect() created last,
\* reconnectTimeout the delay of the pending reconnect timer (0: none pending),
\* scheduled the number of timers set since the last open, live the number of
\* WebSockets of this client that are connecting or open, timers the number
\* of armed setTimeout callbacks, destroyed whether destroy() has been called,
\* afterFailures whether the last open followed a failed attempt,
\* isRemoteUpdate the editor's flag of that name
NewClient ==
  [socket |-> 0, connected |-> FALSE, clientId |-> 0, tabCounter |-> 0,
   panes |-> <<>>, layout |-> PaneNode(UNDEF), knownClients |-> {},
   localAwareness |-> [tabId |-> UNDEF, cursor |-> UNDEF, selection |-> UNDEF],
   readyState |-> "none", reconnectAttempts |-> 0, reconnectTimeout |-> 0,
   scheduled |-> 0, live |-> 0, timers |-> 0, destroyed |-> FALSE,
   afterFailures |-> FALSE, isRemoteUpdate |-> FALSE]

\* `untitled-${this.tabCounter}.txt`
UntitledTitle(n) ==
  CASE n = 1 -> "untitled-1.txt"
    [] n = 2 -> "untitled-2.txt"
    [] n = 3 -> "untitled-3.txt"
    [] OTHER -> "untitled-n.txt"

\* new Pane(this): an id no pane of this editor has
FreshPaneId(panes) ==
  CHOOSE id \in PaneIds : \A i \in 1..Len(panes) : panes[i].id # id

\* index of the first pane that holds the tab, 0 when no pane does
PaneOf(panes, tabId) ==
  IF \E p \in 1..Len(panes) : FindTab(panes[p].tabs, tabId) # 0
  THEN CHOOSE p \in 1..Len(panes) :
         /\ FindTab(panes[p].tabs, tabId) # 0
         /\ \A q \in 1..(p - 1) : FindTab(panes[q].tabs, tabId) = 0
  ELSE 0

RECURSIVE LocalTabs(_)
LocalTabs(panes) ==
  IF panes = <<>> THEN <<>> ELSE Head(panes).tabs \o LocalTabs(Tail(panes))

LocalTabIds(panes) == {LocalTabs(panes)[i].id : i \in 1..Len(LocalTabs(panes))}

Visible(tabs) == SelectSeq(tabs, LAMBDA t : ~Truthy(t.hidden))

\* Pane.activateTab(tabId)
ActivateTab(pane, tabId) ==
  IF FindTab(pane.tabs, tabId) # 0 THEN [pane EXCEPT !.activeTabId = tabId] ELSE pane

\* Pane.addTab(tab, activate)
AddTab(pane, tab, activate) ==
  LET added == [pane EXCEPT !.tabs = Append(@, tab)]
  IN IF activate THEN ActivateTab(added, tab.id) ELSE added

\* Pane.removeTab(tabId)
RemoveTab(pane, tabId) ==
  LET index == FindTab(pane.tabs, tabId)
      rest == [i \in 1..(Len(pane.tabs) - 1) |->
                 IF i < index THEN pane.tabs[i] ELSE pane.tabs[i + 1]]
      removed == [pane EXCEPT !.tabs = rest]
  IN IF index = 0 THEN pane
     ELSE IF pane.activeTabId # tabId THEN removed
     ELSE IF Len(rest) > 0
          THEN ActivateTab(removed, rest[IF index < Len(rest) THEN index ELSE Len(rest)].id)
          ELSE [removed EXCEPT !.activeTabId = NULL]

\* Pane.hideTabRemote(tabId), and the part of Pane.hideTab(tabId) before it
\* turns to an emptied pane
HideInPane(pane, tabId) ==
  LET i == FindTab(pane.tabs, tabId)
      hid == [pane EXCEPT !.tabs[i].hidden = JTRUE]
  IN IF i = 0 THEN pane
     ELSE IF pane.activeTabId # tabId THEN hid
     ELSE IF Len(Visible(hid.tabs)) > 0 THEN ActivateTab(hid, Visible(hid.tabs)[1].id)
     ELSE [hid EXCEPT !.activeTabId = NULL]

\* Pane.restoreTabRemote(tabId), and Pane.restoreTab(tabId) up to its sync call
RestoreInPane(pane, tabId) ==
  LET i == FindTab(pane.tabs, tabId)
  IN IF i = 0 THEN pane
     ELSE IF ~Truthy(pane.tabs[i].hidden) THEN pane
     ELSE ActivateTab([pane EXCEPT !.tabs[i].hidden = JFALSE], tabId)

\* EditorApp.initializeFromServerState(state)
InitializeFromServerState(cl, state) ==
  LET regularTabs == SelectSeq(state.tabs, LAMBDA t : ~Truthy(t.isPreview) /\ ~Truthy(t.hidden))
      previewTabs == SelectSeq(state.tabs, LAMBDA t : Truthy(t.isPreview) /\ ~Truthy(t.hidden))
      tabs == [i \in 1..Len(regularTabs) |->
                 Tab(regularTabs[i].id, regularTabs[i].title, regularTabs[i].content,
                     UNDEF, UNDEF, UNDEF)]
              \o [i \in 1..Len(previewTabs) |->
                    Tab(previewTabs[i].id, previewTabs[i].title, "", UNDEF, JTRUE,
                        previewTabs[i].sourceTabId)]
      pane == Pane(FreshPaneId(<<>>), tabs, NULL)
      active == IF IsSet(state.activeTabId) THEN ActivateTab(pane, state.activeTabId)
                ELSE IF Len(tabs) > 0 THEN ActivateTab(pane, tabs[1].id)
                ELSE pane
  IN [cl EXCEPT !.panes = <<active>>, !.layout = PaneNode(pane.id),
                !.tabCounter = state.tabCounter]

\* the onSync callback of EditorApp.initSync
OnSync(cl, state) ==
  IF state # NoDoc /\ Len(state.tabs) > 0
  THEN InitializeFromServerState(cl, state)
  ELSE [cl EXCEPT !.layout = PaneNode(UNDEF)]

\* EditorApp.handleRemoteTabUpdate(tabId, content, title)
HandleRemoteTabUpdate(cl, tabId, content, title) ==
  LET p == PaneOf(cl.panes, tabId)
      i == FindTab(cl.panes[p].tabs, tabId)
  IN IF p = 0 THEN cl
     ELSE [cl EXCEPT !.panes[p].tabs[i].content = content,
                     !.panes[p].tabs[i].title = IF IsSet(title) THEN title ELSE @]

\* EditorApp.handleRemoteTabCreate(tabId, title, content, isPreview, sourceTabId)
HandleRemoteTabCreate(cl, tabId, title, content, isPreview, sourceTabId) ==
  IF cl.panes = <<>> THEN cl
  ELSE IF PaneOf(cl.panes, tabId) # 0 THEN cl
  ELSE LET tab == IF IsSet(isPreview) /\ IsSet(sourceTabId)
                  THEN Tab(tabId, title, "", UNDEF, JTRUE, sourceTabId)
                  ELSE Tab(tabId, title, content, UNDEF, UNDEF, UNDEF)
       IN [cl EXCEPT !.panes[1] = AddTab(@, tab, FALSE)]

\* EditorApp.handleRemoteTabClose(tabId)
HandleRemoteTabClose(cl, tabId) ==
  LET p == PaneOf(cl.panes, tabId)
  IN IF p = 0 THEN cl ELSE [cl EXCEPT !.panes[p] = RemoveTab(@, tabId)]

\* EditorApp.handleRemoteTabRename(tabId, title)
HandleRemoteTabRename(cl, tabId, title) ==
  LET p == PaneOf(cl.panes, tabId)
      i == FindTab(cl.panes[p].tabs, tabId)
  IN IF p = 0 THEN cl ELSE [cl EXCEPT !.panes[p].tabs[i].title = title]

\* EditorApp.handleRemoteTabHide(tabId)
HandleRemoteTabHide(cl, tabId) ==
  LET p == PaneOf(cl.panes, tabId)
  IN IF p = 0 THEN cl ELSE [cl EXCEPT !.panes[p] = HideInPane(@, tabId)]

\* EditorApp.handleRemoteTabRestore(tabId)
HandleRemoteTabRestore(cl, tabId) ==
  LET p == PaneOf(cl.panes, tabId)
  IN IF p = 0 THEN cl ELSE [cl EXCEPT !.panes[p] = RestoreInPane(@, tabId)]

\* EditorApp.createTabFromData(data)
CreateTabFromData(data) ==
  IF IsSet(data.isPreview) /\ IsSet(data.sourceTabId)
  THEN Tab(data.id, data.title, "", UNDEF, JTRUE, data.sourceTabId)
  ELSE Tab(data.id, data.title, data.content, UNDEF, UNDEF, UNDEF)

\* EditorApp.restoreLayoutNode(node, parent, paneDataMap): the panes it makes,
\* in the order it makes them; paneData(id) is paneDataMap.get(id) or NoTab
RECURSIVE RestoreLayoutNode(_, _)
RestoreLayoutNode(node, paneDataMap) ==
  LET RECURSIVE children(_)
      children(i) ==
        IF i > Len(node.children) THEN <<>>
        ELSE RestoreLayoutNode(node.children[i], paneDataMap) \o children(i + 1)
      found == \E k \in 1..Len(paneDataMap) : paneDataMap[k].id = node.paneId
      paneData == paneDataMap[CHOOSE k \in 1..Len(paneDataMap) :
                                /\ paneDataMap[k].id = node.paneId
                                /\ \A j \in (k + 1)..Len(paneDataMap) :
                                     paneDataMap[j].id # node.paneId]
      filled == Pane(node.paneId,
                     [k \in 1..Len(paneData.tabs) |-> CreateTabFromData(paneData.tabs[k])],
                     NULL)
  IN IF node.type = "pane" /\ IsSet(node.paneId)
     THEN IF ~found THEN <<Pane(node.paneId, <<>>, NULL)>>
          ELSE IF IsSet(paneData.activeTabId)
               THEN <<ActivateTab(filled, paneData.activeTabId)>>
          ELSE IF Len(paneData.tabs) > 0
               THEN <<ActivateTab(filled, paneData.tabs[1].id)>>
          ELSE <<filled>>
     ELSE IF node.type = "split" THEN children(1)
     ELSE <<>>

\* what serializeLayoutForSync(layoutRoot) reads after restoreLayoutNode(node)
\* has built the elements
RECURSIVE DomLayout(_)
DomLayout(node) ==
  IF node.type = "pane" /\ IsSet(node.paneId) THEN PaneNode(node.paneId)
  ELSE IF node.type = "split"
  THEN [type |-> "split",
        direction |-> IF node.direction = "horizontal" THEN "horizontal" ELSE "vertical",
        paneId |-> UNDEF,
        children |-> [i \in 1..Len(node.children) |-> DomLayout(node.children[i])],
        sizes |-> [i \in 1..Len(node.children) |->
                     IF i <= Len(node.sizes) /\ node.sizes[i] # 0 THEN node.sizes[i] ELSE 50]]
  ELSE PaneNode(UNDEF)

\* EditorApp.handleRemoteLayoutUpdate(layout, panes)
HandleRemoteLayoutUpdate(cl, layout, panes) ==
  LET allTabs == LocalTabs(cl.panes)
      latest(tabId) == CHOOSE i \in 1..Len(allTabs) :
                       /\ allTabs[i].id = tabId
                       /\ \A j \in (i + 1)..Len(allTabs) : allTabs[j].id # tabId
      tabData(tabId) ==
        IF \E i \in 1..Len(allTabs) : allTabs[i].id = tabId
        THEN LET tab == allTabs[latest(tabId)]
             IN [id |-> tab.id, title |-> tab.title,
                 content |-> IF IsSet(tab.isPreview) THEN "" ELSE tab.content,
                 isPreview |-> tab.isPreview, sourceTabId |-> tab.sourceTabId]
        ELSE [id |-> tabId, title |-> "Untitled", content |-> "",
              isPreview |-> UNDEF, sourceTabId |-> UNDEF]
      paneDataMap == [k \in 1..Len(panes) |->
                        [id |-> panes[k].id,
                         tabs |-> [i \in 1..Len(panes[k].tabIds) |-> tabData(panes[k].tabIds[i])],
                         activeTabId |-> panes[k].activeTabId]]
  IN [cl EXCEPT !.panes = RestoreLayoutNode(layout, paneDataMap),
                !.layout = DomLayout(layout)]

\* EditorApp.handleAwarenessChange(clients)
HandleAwarenessChange(cl, clients) == [cl EXCEPT !.knownClients = DOMAIN clients]

\* SyncClient.handleMessage(message), past the self-echo test
HandleServerMessage(cl, message) ==
  CASE message.type = "sync" ->
         LET named == IF message.clientId # 0 THEN [cl EXCEPT !.clientId = message.clientId]
                      ELSE cl
             synced == OnSync(named, message.state)
             laid == IF message.layout # NoLayout
                     THEN HandleRemoteLayoutUpdate(synced, message.layout.layout,
                                                   message.layout.panes)
                     ELSE synced
         IN HandleAwarenessChange(laid, message.awareness)
    [] message.type = "full-sync" ->
         IF message.state # NoDoc THEN OnSync(cl, message.state) ELSE cl
    [] message.type = "tab-update" ->
         HandleRemoteTabUpdate(cl, message.tabId,
                               IF IsSet(message.content) THEN message.content ELSE "",
                               message.title)
    [] message.type = "tab-create" ->
         HandleRemoteTabCreate(cl, message.tabId, message.title, message.content,
                               message.isPreview, message.sourceTabId)
    [] message.type = "tab-close" -> HandleRemoteTabClose(cl, message.tabId)
    [] message.type = "tab-hide" -> HandleRemoteTabHide(cl, message.tabId)
    [] message.type = "tab-restore" -> HandleRemoteTabRestore(cl, message.tabId)
    [] message.type = "tab-rename" -> HandleRemoteTabRename(cl, message.tabId, message.title)
    [] message.type = "layout-update" ->
         HandleRemoteLayoutUpdate(cl, message.layout, message.panes)
    [] message.type = "awareness" -> HandleAwarenessChange(cl, message.clients)
    [] OTHER -> cl

\* a value that has the methods of a string: title.split('.') in
\* getLanguageFromTitle raises a TypeError on any other
IsString(v) == v \notin {UNDEF, NULL, JTRUE, JFALSE, NUMBER}

\* the tabs initializeFromServerState gives a text model
RegularTabs(state) == SelectSeq(state.tabs, LAMBDA t : ~Truthy(t.isPreview) /\ ~Truthy(t.hidden))

\* the callback of initSync that the message is handed to raises
Raises(cl, message) ==
  CASE message.type \in {"sync", "full-sync"} ->
         /\ message.state # NoDoc
         /\ \E i \in 1..Len(RegularTabs(message.state)) :
              ~IsString(RegularTabs(message.state)[i].title)
    [] message.type = "tab-rename" ->
         PaneOf(cl.panes, message.tabId) # 0 /\ ~IsString(message.title)
    [] message.type = "tab-create" ->
         /\ cl.panes # <<>>
         /\ PaneOf(cl.panes, message.tabId) = 0
         /\ ~(IsSet(message.isPreview) /\ IsSet(message.sourceTabId))
         /\ ~IsString(message.title)
    [] OTHER -> FALSE

\* what the callback has done when it raises: renameTabRemote has assigned
\* the title, initializeFromServerState has added the tabs before the one it
\* raises on, handleRemoteTabCreate has done nothing
Interrupted(cl, message) ==
  CASE message.type \in {"sync", "full-sync"} ->
         LET named == IF message.type = "sync" /\ message.clientId # 0
                      THEN [cl EXCEPT !.clientId = message.clientId] ELSE cl
             regular == RegularTabs(message.state)
             bad == CHOOSE i \in 1..Len(regular) :
                      /\ ~IsString(regular[i].title)
                      /\ \A j \in 1..(i - 1) : IsString(regular[j].title)
             tabs == [i \in 1..(bad - 1) |->
                        Tab(regular[i].id, regular[i].title, regular[i].content,
                            UNDEF, UNDEF, UNDEF)]
         IN [named EXCEPT !.panes = <<Pane(FreshPaneId(<<>>), tabs, NULL)>>,
                          !.layout = PaneNode(FreshPaneId(<<>>)),
                          !.tabCounter = message.state.tabCounter]
    [] message.type = "tab-rename" ->
         HandleRemoteTabRename(cl, message.tabId, message.title)
    [] OTHER -> cl

\* the message reaches a callback that sets and clears isRemoteUpdate
SetsFlag(message) ==
  CASE message.type = "sync" ->
         \/ (message.state # NoDoc /\ Len(message.state.tabs) > 0)
         \/ message.layout # NoLayout
    [] message.type = "full-sync" ->
         message.state # NoDoc /\ Len(message.state.tabs) > 0
    [] message.type = "awareness" -> FALSE
    [] OTHER -> TRUE

\* socket.onmessage past the self-echo test: handleMessage hands the message
\* to the callbacks of initSync, each of which is
\*   this.isRemoteUpdate = true; handler; this.isRemoteUpdate = false
\* and the catch of onmessage logs what a callback raises
OnMessage(cl, message) ==
  IF Raises(cl, message)
  THEN [Interrupted(cl, message) EXCEPT !.isRemoteUpdate = TRUE]
  ELSE [HandleServerMessage(cl, message) EXCEPT
          !.isRemoteUpdate = IF SetsFlag(message) THEN FALSE ELSE @]

\* faulty variant: every tagged message is taken for the client's own
FromAnyone(cl, message) == "from" \in DOMAIN message

\* the test at the top of SyncClient.handleMessage
FromSelf(cl, message) == "from" \in DOMAIN message /\ message.from = cl.clientId

\* faulty variant: the client id is not part of the test
SendWithoutId(cl, messages) ==
  IF cl.connected /\ cl.socket # 0
  THEN [inbox EXCEPT ![cl.socket] = @ \o messages]
  ELSE inbox

\* SyncClient.send(message): what the sockets carry towards the room afterwards
Send(cl, messages) ==
  IF cl.connected /\ cl.socket # 0 /\ cl.clientId # 0
  THEN [inbox EXCEPT ![cl.socket] = @ \o messages]
  ELSE inbox

\* the sendTabUpdate / sendTabCreate / ... payloads, tagged by send()
TabUpdateMsg(cl, tab) ==
  [type |-> "tab-update", tabId |-> tab.id, content |-> tab.content, title |-> tab.title,
   from |-> cl.clientId]

TabCreateMsg(cl, tab) ==
  [type |-> "tab-create", tabId |-> tab.id, title |-> tab.title, content |-> tab.content,
   isPreview |-> UNDEF, sourceTabId |-> UNDEF, from |-> cl.clientId]

TabIdMsg(cl, type, tabId) == [type |-> type, tabId |-> tabId, from |-> cl.clientId]

TabRenameMsg(cl, tabId, title) ==
  [type |-> "tab-rename", tabId |-> tabId, title |-> title, from |-> cl.clientId]

\* EditorApp.sendLayoutUpdate()
LayoutUpdateMsg(cl) ==
  [type |-> "layout-update", layout |-> cl.layout,
   panes |-> [k \in 1..Len(cl.panes) |->
                [id |-> cl.panes[k].id,
                 tabIds |-> [i \in 1..Len(cl.panes[k].tabs) |-> cl.panes[k].tabs[i].id],
                 activeTabId |-> cl.panes[k].activeTabId]],
   from |-> cl.clientId]

\* faulty variant: the listener does not look at isRemoteUpdate
OnDidChangeContentUnguarded(cl, tab, isRemoteUpdate) == <<TabUpdateMsg(cl, tab)>>

\* the model.onDidChangeContent listener of setupTabSync, createTabFromData
\* and createNewTab: what it hands to the sync client
OnDidChangeContent(cl, tab, isRemoteUpdate) ==
  IF ~isRemoteUpdate THEN <<TabUpdateMsg(cl, tab)>> ELSE <<>>

\* faulty variant: the onSync callback answers a sync with sendFullSync()
RemoteSendsPushingState(cl, message) ==
  IF message.type = "sync"
  THEN <<[type |-> "full-sync",
          state |-> [tabs |-> LocalTabs(cl.panes), activeTabId |-> NULL,
                     tabCounter |-> cl.tabCounter],
          from |-> message.clientId]>>
  ELSE <<>>

\* what the editor's listeners hand to the sync client while a callback of
\* initSync applies a message from the room: the callbacks run with
\* isRemoteUpdate set, and tab.model.setValue(content) in
\* handleRemoteTabUpdate fires the tab's content listener
RemoteSends(cl, message) ==
  IF message.type = "tab-update"
  THEN LET content == IF IsSet(message.content) THEN message.content ELSE ""
           p == PaneOf(cl.panes, message.tabId)
           i == FindTab(cl.panes[p].tabs, message.tabId)
           applied == HandleServerMessage(cl, message)
       IN IF p # 0 /\ cl.panes[p].tabs[i].content # content
                  /\ ~IsSet(cl.panes[p].tabs[i].isPreview)
          THEN OnDidChangeContent(applied, applied.panes[p].tabs[i], TRUE)
          ELSE <<>>
  ELSE <<>>

(* --------------------------- the editor's events ---------------------- *)
\* tab-create messages on their way to the room
PendingCreates ==
  Cardinality({x \in UNION {{<<s, i>> : i \in 1..Len(inbox[s])} : s \in ConnIds} :
                 inbox[x[1]][x[2]].type = "tab-create"})

\* a tab list is capped at MaxTabs records
RoomForATab ==
  (IF documentState = NoDoc THEN 0 ELSE Len(documentState.tabs)) + PendingCreates < MaxTabs

UserOp(c, after, messages) ==
  /\ ops < MaxMsgs
  /\ ops' = ops + 1
  /\ client' = [client EXCEPT ![c] = after]
  /\ inbox' = Send(after, messages)
  /\ UNCHANGED <<roomVars, handled, histVars, taken>>

maxReconnectAttempts == 10
BaseDelay == 1000
MaxDelay == 30000

Min(a, b) == IF a <= b THEN a ELSE b

\* faulty variant: the delay is not capped
ReconnectDelayUncapped(attempts) == BaseDelay * 2^attempts

\* Math.min(1000 * Math.pow(2, this.reconnectAttempts), 30000)
ReconnectDelay(attempts) == Min(BaseDelay * 2^attempts, MaxDelay)

\* faulty variant: the bound is tested with > instead of >=
ScheduleReconnectOnceMore(cl) ==
  IF cl.reconnectAttempts > maxReconnectAttempts
  THEN cl
  ELSE [cl EXCEPT !.reconnectTimeout = ReconnectDelay(cl.reconnectAttempts),
                  !.reconnectAttempts = @ + 1,
                  !.scheduled = @ + 1,
                  !.timers = @ + 1]

\* faulty variant: only the first close is followed by a retry
ScheduleReconnectFirstOnly(cl) ==
  IF cl.reconnectAttempts >= 1
  THEN cl
  ELSE [cl EXCEPT !.reconnectTimeout = ReconnectDelay(cl.reconnectAttempts),
                  !.reconnectAttempts = @ + 1,
                  !.scheduled = @ + 1,
                  !.timers = @ + 1]

\* scheduleReconnect()
ScheduleReconnect(cl) ==
  IF cl.reconnectAttempts >= maxReconnectAttempts
  THEN cl
  ELSE [cl EXCEPT !.reconnectTimeout = ReconnectDelay(cl.reconnectAttempts),
                  !.reconnectAttempts = @ + 1,
                  !.scheduled = @ + 1,
                  !.timers = @ + 1]

\* connect() as far as new WebSocket(wsUrl); the timer that called it, if
\* one did, is no longer pending
Connect(cl) ==
  [cl EXCEPT !.readyState = "connecting", !.reconnectTimeout = 0,
             !.live = @ + 1, !.timers = IF @ > 0 THEN @ - 1 ELSE 0]

\* faulty variant: onopen leaves the attempt counter as it is
OnOpenKeepingAttempts(cl, id) ==
  [cl EXCEPT !.socket = id, !.connected = TRUE,
             !.readyState = "open", !.scheduled = 0,
             !.afterFailures = cl.reconnectAttempts >= 2]

\* socket.onopen, on the socket the room accepted as session id
OnOpen(cl, id) ==
  [cl EXCEPT !.socket = id, !.connected = TRUE, !.reconnectAttempts = 0,
             !.readyState = "open", !.scheduled = 0,
             !.afterFailures = cl.reconnectAttempts >= 2]

\* faulty variant: the error handler schedules a reconnect as well
OnErrorScheduling(cl) == ScheduleReconnect(cl)

\* socket.onerror: console.error, nothing else
OnError(cl) == cl

\* socket.onclose, on a socket that was connecting or open, or that close()
\* had put into its closing state
OnClose(cl) ==
  ScheduleReconnect([cl EXCEPT !.connected = FALSE, !.readyState = "closed",
                               !.live = IF cl.readyState \in {"connecting", "open"}
                                        THEN @ - 1 ELSE @])

\* destroy(): clearTimeout on the pending timer, close() on the socket
\* (a no-op on one that is closed already), this.socket = null
SyncDestroy(cl) ==
  [cl EXCEPT !.timers = IF cl.reconnectTimeout # 0 THEN @ - 1 ELSE @,
             !.reconnectTimeout = 0,
             !.live = IF cl.readyState \in {"connecting", "open"} THEN @ - 1 ELSE @,
             !.readyState = IF @ \in {"connecting", "open"} THEN "closing" ELSE @,
             !.socket = 0,
             !.destroyed = TRUE]

\* connect() runs from the constructor and from the reconnect timer
CanConnect(cl) == cl.readyState = "none" \/ cl.reconnectTimeout # 0

\* new WebSocket(wsUrl) accepted by the room; socket.onopen
ClientConnect(c, color) ==
  /\ ~client[c].connected
  /\ CanConnect(client[c])
  /\ RoomConnect(color)
  /\ client' = [client EXCEPT ![c] = OnOpen(Connect(client[c]), nextId + 1)]
  /\ UNCHANGED <<histVars, inbox, ops, taken>>

\* the constructor or the reconnect timer calls connect(): a socket is
\* created and starts connecting
StartConnect(c) ==
  /\ CanConnect(client[c])
  /\ client[c].readyState \in {"none", "closed"}
  /\ client' = [client EXCEPT ![c] = Connect(client[c])]
  /\ UNCHANGED <<roomVars, handled, histVars, inbox, ops, taken>>

\* the room accepts the connecting socket; socket.onopen
SocketOpens(c, color) ==
  /\ client[c].readyState = "connecting"
  /\ RoomConnect(color)
  /\ client' = [client EXCEPT ![c] = OnOpen(client[c], nextId + 1)]
  /\ UNCHANGED <<histVars, inbox, ops, taken>>

\* the connecting socket fails: socket.onerror, then socket.onclose
AttemptFails(c) ==
  /\ client[c].readyState = "connecting"
  /\ client' = [client EXCEPT ![c] = OnClose(OnError(client[c]))]
  /\ UNCHANGED <<roomVars, handled, histVars, inbox, ops, taken>>

\* the editor is torn down: EditorApp.destroy() -> syncClient.destroy(); the
\* room's close listener runs for a socket it had accepted
Destroy(c) ==
  LET cl == client[c]
  IN /\ cl.readyState # "none"
     /\ client' = [client EXCEPT ![c] = SyncDestroy(cl)]
     /\ IF cl.readyState = "open"
        THEN RoomClose(cl.socket) /\ inbox' = [inbox EXCEPT ![cl.socket] = <<>>]
        ELSE UNCHANGED <<roomVars, handled, inbox>>
     /\ UNCHANGED <<histVars, ops, taken>>

\* the close event of a socket that close() was called on is delivered
CloseArrives(c) ==
  /\ client[c].readyState = "closing"
  /\ client' = [client EXCEPT ![c] = OnClose(client[c])]
  /\ UNCHANGED <<roomVars, handled, histVars, inbox, ops, taken>>

\* socket.onmessage
ClientReceive(c) ==
  LET cl == client[c]
      s == cl.socket
  IN /\ cl.connected
     /\ outbox[s] # <<>>
     /\ LET envelope == Head(outbox[s])
            own == FromSelf(cl, envelope.msg)
            after == IF own THEN cl ELSE OnMessage(cl, envelope.msg)
        IN /\ client' = [client EXCEPT ![c] = after]
           /\ inbox' = Send(after, IF own THEN <<>> ELSE RemoteSends(cl, envelope.msg))
           /\ taken' = [taken EXCEPT ![s] =
                          Append(@, [seq |-> envelope.seq, origin |-> envelope.origin,
                                     own |-> own, applied |-> ~own])]
     /\ outbox' = [outbox EXCEPT ![s] = Tail(@)]
     /\ UNCHANGED <<sessions, documentState, layoutState, db, sockets, nextId, restarts,
                    handled, histVars, ops>>

\* the user types in a visible tab: the model's onDidChangeContent listener
ClientEdit(c, tabId, content) ==
  LET cl == client[c]
      p == PaneOf(cl.panes, tabId)
      i == FindTab(cl.panes[p].tabs, tabId)
      after == [cl EXCEPT !.panes[p] = ActivateTab([@ EXCEPT !.tabs[i].content = content], tabId)]
  IN /\ p # 0
     /\ ~Truthy(cl.panes[p].tabs[i].hidden)
     /\ ~IsSet(cl.panes[p].tabs[i].isPreview)
     /\ cl.panes[p].tabs[i].content # content
     /\ UserOp(c, after, OnDidChangeContent(after, after.panes[p].tabs[i], cl.isRemoteUpdate))

\* EditorApp.createNewTab(pane), with `tab-${Date.now()}-${tabCounter}` as id
CreateNewTab(cl, p, id) ==
  LET counted == [cl EXCEPT !.tabCounter = @ + 1]
      tab == Tab(id, UntitledTitle(counted.tabCounter), "", UNDEF, UNDEF, UNDEF)
  IN [counted EXCEPT !.panes[p] = AddTab(@, tab, TRUE)]

\* the user presses the pane's add button
ClientNewTab(c, id) ==
  LET cl == client[c]
      after == CreateNewTab(cl, 1, id)
  IN /\ cl.panes # <<>>
     /\ id \notin LocalTabIds(cl.panes)
     /\ RoomForATab
     /\ UserOp(c, after, <<TabCreateMsg(after, after.panes[1].tabs[Len(after.panes[1].tabs)])>>)

\* the user closes a tab: Pane.closeTab -> Pane.hideTab; hiding the last
\* visible tab of the only pane makes EditorApp.handleEmptyPane add a new tab
ClientHide(c, tabId, id) ==
  LET cl == client[c]
      p == PaneOf(cl.panes, tabId)
      hid == [cl EXCEPT !.panes[p] = HideInPane(@, tabId)]
      emptied == cl.panes[p].activeTabId = tabId /\ Len(Visible(hid.panes[p].tabs)) = 0
      after == IF emptied THEN CreateNewTab(hid, p, id) ELSE hid
      created == after.panes[p].tabs[Len(after.panes[p].tabs)]
  IN /\ p # 0
     /\ ~Truthy(cl.panes[p].tabs[FindTab(cl.panes[p].tabs, tabId)].hidden)
     /\ emptied => (Len(cl.panes) = 1 /\ id \notin LocalTabIds(cl.panes) /\ RoomForATab)
     /\ ~emptied => id = tabId
     /\ UserOp(c, after,
               IF emptied
               THEN <<TabCreateMsg(after, created), TabIdMsg(after, "tab-hide", tabId)>>
               ELSE <<TabIdMsg(after, "tab-hide", tabId)>>)

\* the user reopens a hidden tab: Pane.restoreTab
ClientRestore(c, tabId) ==
  LET cl == client[c]
      p == PaneOf(cl.panes, tabId)
      after == [cl EXCEPT !.panes[p] = RestoreInPane(@, tabId)]
  IN /\ p # 0
     /\ Truthy(cl.panes[p].tabs[FindTab(cl.panes[p].tabs, tabId)].hidden)
     /\ UserOp(c, after, <<TabIdMsg(after, "tab-restore", tabId)>>)

\* the user renames a tab: finishRename in Pane.renameTab
ClientRename(c, tabId, title) ==
  LET cl == client[c]
      p == PaneOf(cl.panes, tabId)
      i == FindTab(cl.panes[p].tabs, tabId)
      after == [cl EXCEPT !.panes[p].tabs[i].title = title]
  IN /\ p # 0
     /\ ~Truthy(cl.panes[p].tabs[i].hidden)
     /\ cl.panes[p].tabs[i].title # title
     /\ UserOp(c, after, <<TabRenameMsg(after, tabId, title)>>)

\* the user drags the last tab of the only pane to its right edge:
\* EditorApp.splitPane(targetPane, 'right', tab, sourcePane)
ClientSplitPane(c) ==
  LET cl == client[c]
      source == cl.panes[1]
      tab == source.tabs[Len(source.tabs)]
      newPane == AddTab(Pane(FreshPaneId(cl.panes), <<>>, NULL), tab, TRUE)
      after == [cl EXCEPT
                  !.panes = <<RemoveTab(source, tab.id), newPane>>,
                  !.layout = [type |-> "split", direction |-> "horizontal", paneId |-> UNDEF,
                              children |-> <<PaneNode(source.id), PaneNode(newPane.id)>>,
                              sizes |-> <<50, 50>>]]
  IN /\ Len(cl.panes) = 1
     /\ cl.layout = PaneNode(source.id)
     /\ Len(source.tabs) > 1
     /\ ~Truthy(tab.hidden)
     /\ UserOp(c, after, <<LayoutUpdateMsg(after)>>)

\* the connection of a browser ends: socket.onclose in the browser, the close
\* listener in the room; what was in flight on it is lost
ConnectionLost(c) ==
  LET s == client[c].socket
  IN /\ client[c].connected
     /\ client[c].readyState = "open"
     /\ RoomClose(s)
     /\ client' = [client EXCEPT ![c] = OnClose(client[c])]
     /\ inbox' = [inbox EXCEPT ![s] = <<>>]
     /\ UNCHANGED <<histVars, ops, taken>>

\* the room takes the next message a browser sent on socket s
RoomReceive(s) ==
  /\ inbox[s] # <<>>
  /\ RoomMessage(s, Head(inbox[s]))
  /\ inbox' = [inbox EXCEPT ![s] = Tail(@)]
  /\ UNCHANGED <<histVars, client, ops, taken>>

\* a caller of the sync client (the editor, or a runner through
\* window.__syncClient) invokes sendTabUpdate / sendTabCreate / ... /
\* sendLayoutUpdate with some payload
SendCall(c, payload) ==
  /\ ops < MaxMsgs
  /\ payload.type = "tab-create" => RoomForATab
  /\ ops' = ops + 1
  /\ inbox' = Send(client[c], <<payload>>)
  /\ UNCHANGED <<roomVars, handled, histVars, client, taken>>

AwarenessStates == {[tabId |-> "t1", cursor |-> "1:1"]}

\* SyncClient.updateAwareness(state)
UpdateAwareness(c, state) ==
  LET merged == [f \in {"tabId", "cursor", "selection"} |->
                   IF f \in DOMAIN state THEN state[f] ELSE client[c].localAwareness[f]]
      cl == [client[c] EXCEPT !.localAwareness = merged]
      message == [type |-> "awareness", tabId |-> merged.tabId, cursor |-> merged.cursor,
                  selection |-> merged.selection, from |-> cl.clientId]
  IN /\ ops < MaxMsgs
     /\ ops' = ops + 1
     /\ client' = [client EXCEPT ![c] = cl]
     /\ inbox' = IF cl.connected /\ cl.socket # 0 /\ cl.clientId # 0
                 THEN [inbox EXCEPT ![cl.socket] = Append(@, message)]
                 ELSE inbox
     /\ UNCHANGED <<roomVars, handled, histVars, taken>>

\* the actor restarts under connected browsers: every socket closes
Restart ==
  /\ RoomRestart
  /\ client' = [c \in Clients |->
                  IF client[c].connected THEN OnClose(client[c]) ELSE client[c]]
  /\ inbox' = [s \in ConnIds |-> <<>>]
  /\ UNCHANGED <<histVars, ops, taken>>

(* --------------------------- specifications --------------------------- *)
\* Storage the constructor can find: none yet, or what an earlier life of the
\* actor left after handling tab-create {tabId: "t1", title: "x", content: "a"}
\* and then tab-create {tabId: "t2", title: "y", content: "b"}.
InitStores ==
  LET one == CaseTabCreate(NoDoc, [tabId |-> "t1", title |-> "x", content |-> "a"]).doc
      two == CaseTabCreate(one, [tabId |-> "t2", title |-> "y", content |-> "b"]).doc
  IN {EmptyDb, PersistState(one, EmptyDb), PersistState(two, EmptyDb)}

RoomInit ==
  /\ db \in InitStores
  /\ documentState = LoadDocument(db)
  /\ layoutState = LoadLayout(db)
  /\ sessions = <<>>
  /\ sockets = [s \in ConnIds |-> "none"]
  /\ outbox = [s \in ConnIds |-> <<>>]
  /\ nextId = 0
  /\ restarts = 0
  /\ handled = 0
  /\ last = [kind |-> "init"]
  /\ pre = Snapshot
  /\ written = [t \in TabIds |-> NoTab]
  /\ closed = {}
  /\ roundTrip = NoTrip
  /\ repeated = FALSE
  /\ client = [c \in Clients |-> NewClient]
  /\ inbox = [s \in ConnIds |-> <<>>]
  /\ ops = 0
  /\ taken = [s \in ConnIds |-> <<>>]

\* the room alone, under every message a socket can deliver, each event
\* recorded in the history
ConnectEvent(color) ==
  RoomConnect(color) /\ Observe([kind |-> "connect", id |-> nextId + 1])
    /\ UNCHANGED clientVars

MessageEvent(s, message) ==
  RoomMessage(s, message) /\ ObserveMessage(s, message) /\ UNCHANGED clientVars

CloseEvent(s) ==
  RoomClose(s) /\ Observe([kind |-> "close", id |-> s]) /\ UNCHANGED clientVars

ErrorEvent(s) ==
  RoomError(s) /\ Observe([kind |-> "error", id |-> s]) /\ UNCHANGED clientVars

RestartEvent ==
  RoomRestart /\ Observe([kind |-> "restart"]) /\ UNCHANGED clientVars

RoomNext ==
  \/ \E color \in Colors : ConnectEvent(color)
  \/ \E s \in ConnIds : \E message \in ClientMessages(s) \cup AwarenessMsgs(s) :
       MessageEvent(s, message)
  \/ \E s \in ConnIds : CloseEvent(s)
  \/ \E s \in ConnIds : ErrorEvent(s)
  \/ RestartEvent

RoomSpec == RoomInit /\ [][RoomNext]_vars

\* the room under faults: sockets whose sends throw and frames that are no
\* ClientMessage; each event is recorded with the state it found
Record(event) ==
  /\ last' = event
  /\ pre' = Snapshot
  /\ UNCHANGED <<written, closed, roundTrip, repeated>>

FaultConnect(color) ==
  RoomConnect(color) /\ Record([kind |-> "connect", id |-> nextId + 1])
    /\ UNCHANGED clientVars

FaultMessage(s, message) ==
  /\ RoomMessage(s, message)
  /\ Record([kind |-> "message", msg |-> message, from |-> s,
             dropped |-> s \notin DOMAIN sessions])
  /\ UNCHANGED clientVars

FaultClose(s) ==
  RoomClose(s) /\ Record([kind |-> "close", id |-> s]) /\ UNCHANGED clientVars

FaultBreak(s) ==
  RoomBreak(s) /\ Record([kind |-> "break", id |-> s]) /\ UNCHANGED clientVars

FaultNext ==
  \/ \E color \in Colors : FaultConnect(color)
  \/ \E s \in ConnIds :
       \E message \in ClientMessages(s) \cup AwarenessMsgs(s) \cup MalformedMsgs(s) :
         FaultMessage(s, message)
  \/ \E s \in ConnIds : FaultClose(s)
  \/ \E s \in ConnIds : FaultBreak(s)

FaultSpec == RoomInit /\ [][FaultNext]_vars

\* a space from its creation: the Worker's /new and /new/{filename} routes,
\* then the room's events
Filenames == {NULL, "Hello.java"}

\* the status of SpaceRoom.fetch's response: a request that carries no
\* Upgrade: websocket header is answered 400 and nothing else is done with it
FetchStatus(upgrade) == IF upgrade = "websocket" THEN 101 ELSE 400

\* GET /new or /new/{filename}: a fresh space id, room.fetch of a POST to
\* https://internal/init (with the filename in its body when there is one),
\* then the redirect to /space/{id}
NewSpace(filename) ==
  /\ last.kind = "init"
  /\ Observe([kind |-> "new", filename |-> filename, init |-> FetchStatus(UNDEF),
              status |-> 302])
  /\ UNCHANGED <<roomVars, handled, clientVars>>

\* the actor of a fresh space id finds no storage
SpaceInit == RoomInit /\ db = EmptyDb

SpaceNext ==
  \/ \E filename \in Filenames : NewSpace(filename)
  \/ last.kind # "init" /\ RoomNext

SpaceSpec == SpaceInit /\ [][SpaceNext]_vars

\* the room under tab messages that name three tab ids, so that a message
\* about one tab finds two others in the store
OrderMessage(s, message) ==
  /\ RoomMessage(s, message)
  /\ Record([kind |-> "message", msg |-> message, from |-> s,
             dropped |-> s \notin DOMAIN sessions])
  /\ UNCHANGED clientVars

OrderNext ==
  \/ \E color \in Colors : FaultConnect(color)
  \/ \E s \in ConnIds : \E message \in OrderMsgs(s) : OrderMessage(s, message)

OrderSpec == RoomInit /\ [][OrderNext]_vars

\* generateColor(): colors[Math.floor(Math.random() * colors.length)], any
\* color of the palette; two of its twelve colors are kept here
Palette == {"#FF6B6B", "#4ECDC4"}

\* the room's sessions under every outcome of generateColor()
ColorNext ==
  \/ \E color \in Palette : FaultConnect(color)
  \/ \E s \in ConnIds : \E message \in AwarenessMsgs(s) \cup TabIdMsgs(s) :
       FaultMessage(s, message)
  \/ \E s \in ConnIds : FaultClose(s)

ColorSpec == RoomInit /\ [][ColorNext]_vars

\* the room with the browsers connected to it
Init == RoomInit

Next ==
  \/ \E c \in Clients : \E color \in Colors : ClientConnect(c, color)
  \/ \E c \in Clients : ClientReceive(c)
  \/ \E s \in ConnIds : RoomReceive(s)
  \/ \E c \in Clients : \E tabId \in TabIds : \E content \in EditContents :
       ClientEdit(c, tabId, content)
  \/ \E c \in Clients : \E id \in TabIds : ClientNewTab(c, id)
  \/ \E c \in Clients : \E tabId \in TabIds : \E id \in TabIds : ClientHide(c, tabId, id)
  \/ \E c \in Clients : \E tabId \in TabIds : ClientRestore(c, tabId)
  \/ \E c \in Clients : \E tabId \in TabIds : \E title \in Titles :
       ClientRename(c, tabId, title)
  \/ \E c \in Clients : ClientSplitPane(c)
  \/ \E c \in Clients : ConnectionLost(c)
  \/ Restart

Spec == Init /\ [][Next]_vars

\* the sync client under any caller: every send method with every payload,
\* at any moment of the connection's life
ClientNext ==
  \/ \E c \in Clients : \E color \in Colors : ClientConnect(c, color)
  \/ \E c \in Clients : ClientReceive(c)
  \/ \E s \in ConnIds : RoomReceive(s)
  \/ \E c \in Clients : \E payload \in ClientMessages(client[c].clientId) : SendCall(c, payload)
  \/ \E c \in Clients : \E state \in AwarenessStates : UpdateAwareness(c, state)
  \/ \E c \in Clients : ConnectionLost(c)

ClientSpec == Init /\ [][ClientNext]_vars

\* the connection of a sync client over its life: attempts that the room
\* accepts, attempts that fail, connections that are lost, and the timer
RetryNext ==
  \/ \E c \in Clients : StartConnect(c)
  \/ \E c \in Clients : \E color \in Colors : SocketOpens(c, color)
  \/ \E c \in Clients : AttemptFails(c)
  \/ \E c \in Clients : ConnectionLost(c)

RetrySpec == Init /\ [][RetryNext]_vars

\* tab-rename frames whose title is a number
NumberRenames(from) ==
  [type : {"tab-rename"}, tabId : TabIds, title : {NUMBER}, from : {from}]

\* editors that type while a peer sends a rename the protocol has no type for
EchoNext ==
  \/ \E c \in Clients : \E color \in Colors : ClientConnect(c, color)
  \/ \E c \in Clients : ClientReceive(c)
  \/ \E s \in ConnIds : RoomReceive(s)
  \/ \E c \in Clients : \E tabId \in TabIds : \E content \in EditContents :
       ClientEdit(c, tabId, content)
  \/ \E c \in Clients : \E payload \in NumberRenames(client[c].clientId) : SendCall(c, payload)

EchoSpec == Init /\ [][EchoNext]_vars

\* the same life with a caller that may tear the client down at any moment
LifeNext ==
  \/ RetryNext
  \/ \E c \in Clients : Destroy(c)
  \/ \E c \in Clients : CloseArrives(c)

LifeSpec == Init /\ [][LifeNext]_vars

\* a timer that setTimeout has armed fires
RetryLive == RetrySpec /\ \A c \in Clients : WF_vars(StartConnect(c))


(* ============================ properties ============================== *)
TabIdsOf(doc) == IF doc = NoDoc THEN {} ELSE {doc.tabs[i].id : i \in 1..Len(doc.tabs)}

Handled(types) == last.kind = "message" /\ ~last.dropped /\ last.msg.type \in types

\* the sync the room sent to the session that connected last
LastSync == outbox[last.id][1].msg

\* a browser that holds an open, registered session and knows its client id
Synced(c) ==
  /\ client[c].connected
  /\ client[c].socket \in DOMAIN sessions
  /\ client[c].clientId = client[c].socket

\* nothing is on its way between the room and the connected browsers
Drained ==
  /\ \A s \in ConnIds : inbox[s] = <<>>
  /\ \A c \in Clients : client[c].connected => outbox[client[c].socket] = <<>>

\* per socket: the positions (in the room's handling order) of what the room
\* has sent on it, in the order the browser takes it
Arrivals(s) ==
  [i \in 1..Len(taken[s]) |-> taken[s][i].seq] \o [i \in 1..Len(outbox[s]) |-> outbox[s][i].seq]

(* C1: once every in-flight message is handled and every relay is delivered
   and applied, each connected session holds, for every tab it shares with
   the room, the content the room holds: after conflicting tab-updates both
   sessions end with the content of the update the room handled last.
   Stated for rooms in which no tab is hidden and no layout was ever sent. *)
C1_ConflictingUpdatesConverge ==
  (/\ \A c \in Clients : Synced(c)
   /\ Drained
   /\ documentState # NoDoc
   /\ layoutState = NoLayout
   /\ \A i \in 1..Len(documentState.tabs) : ~Truthy(documentState.tabs[i].hidden)) =>
    \A c \in Clients :
      LET local == LocalTabs(client[c].panes)
      IN \A i \in 1..Len(local) :
           LET j == FindTab(documentState.tabs, local[i].id)
           IN (j # 0 /\ ~IsSet(local[i].isPreview)) =>
                local[i].content = documentState.tabs[j].content

C1_Witness ==
  /\ \A c \in Clients : Synced(c)
  /\ Drained
  /\ handled = MaxMsgs
  /\ \A s \in ConnIds : \E i \in 1..Len(taken[s]) : taken[s][i].seq > 0

(* C2: the room has sent every relay of a message before it handles the next
   one, and any two relays reach a session in the order in which the room
   handled their messages. *)
C2_SameOrderForAll ==
  \A s \in ConnIds :
    /\ \A i \in 1..Len(Arrivals(s)) : Arrivals(s)[i] <= handled
    /\ \A i, j \in 1..Len(Arrivals(s)) :
         (i < j /\ Arrivals(s)[i] > 0 /\ Arrivals(s)[j] > 0) => Arrivals(s)[i] < Arrivals(s)[j]

C2_Witness ==
  \E s \in ConnIds : \E i, j \in 1..Len(taken[s]) :
    i < j /\ taken[s][i].seq > 0 /\ taken[s][j].seq > 0

(* C5: the room never sends a mutation message back on the socket it came
   from, a client applies no message tagged with its own client id, and so no
   client applies a mutation of its own. *)
C5_NoSelfEcho ==
  \A s \in ConnIds :
    /\ \A i \in 1..Len(outbox[s]) : outbox[s][i].seq > 0 => outbox[s][i].origin # s
    /\ \A i \in 1..Len(taken[s]) :
         /\ taken[s][i].own => ~taken[s][i].applied
         /\ (taken[s][i].seq > 0 /\ taken[s][i].applied) => taken[s][i].origin # s

C5_Witness ==
  \E s, r \in ConnIds :
    /\ s # r
    /\ \E i \in 1..Len(taken[r]) : taken[r][i].origin = s /\ taken[r][i].applied
    /\ \A i \in 1..Len(taken[s]) : taken[s][i].seq = 0
    /\ outbox[s] = <<>>

(* C3: tab-update on an existing tab overwrites exactly the fields the message
   carries, leaves the absent field, hidden, position, every other tab and the
   layout alone, and the content it carries is the stored and the persisted
   content of that tab afterwards. *)
C3_TabUpdateLastWriterWins ==
  (Handled({"tab-update"}) /\ last.msg.tabId \in TabIdsOf(pre.doc)) =>
    LET m == last.msg
        i == FindTab(pre.doc.tabs, m.tabId)
        old == pre.doc.tabs[i]
        new == documentState.tabs[i]
    IN /\ Len(documentState.tabs) = Len(pre.doc.tabs)
       /\ \A j \in 1..Len(pre.doc.tabs) : j # i => documentState.tabs[j] = pre.doc.tabs[j]
       /\ new.id = old.id /\ new.hidden = old.hidden
       /\ new.isPreview = old.isPreview /\ new.sourceTabId = old.sourceTabId
       /\ new.content = IF m.content # UNDEF THEN m.content ELSE old.content
       /\ new.title = IF m.title # UNDEF THEN m.title ELSE old.title
       /\ documentState.activeTabId = pre.doc.activeTabId
       /\ documentState.tabCounter = pre.doc.tabCounter
       /\ m.content # UNDEF =>
            \E r \in db.tabs : r.id = m.tabId /\ r.content = m.content

C3_Witness ==
  /\ Handled({"tab-update"})
  /\ last.msg.tabId \in TabIdsOf(pre.doc)
  /\ last.msg.content # UNDEF

\* the part of C3 that is about the store in memory
C3_InMemory ==
  (Handled({"tab-update"}) /\ last.msg.tabId \in TabIdsOf(pre.doc)) =>
    LET m == last.msg
        i == FindTab(pre.doc.tabs, m.tabId)
    IN documentState =
         [pre.doc EXCEPT !.tabs[i].content = IF m.content # UNDEF THEN m.content ELSE @,
                         !.tabs[i].title = IF m.title # UNDEF THEN m.title ELSE @]

(* C4: a tab-update, tab-hide, tab-restore or tab-rename naming a tab id that
   is not in DocumentState changes neither DocumentState nor the persisted
   rows, and the sender is sent nothing; a tab closed by tab-close stays
   absent until a tab-create or full-sync names it again. *)
C4_MissingEntityNoOp ==
  /\ (Handled({"tab-update", "tab-hide", "tab-restore", "tab-rename"})
        /\ last.msg.tabId \notin TabIdsOf(pre.doc)) =>
       /\ documentState = pre.doc
       /\ db = pre.db
       /\ outbox[last.from] = pre.outbox[last.from]
       /\ \A s \in ConnIds :
            outbox[s] # pre.outbox[s] =>
              outbox[s] = Append(pre.outbox[s], Envelope(last.msg, handled, last.from))
  /\ \A t \in closed : t \notin TabIdsOf(documentState)
  /\ \A t \in closed : \A r \in db.tabs : r.id # t

C4_Witness ==
  /\ Handled({"tab-update"})
  /\ last.msg.tabId \in closed
  /\ restarts = 0

(* C6: on every mutation message the room sends the received message,
   unchanged, once to every registered session other than the sender and to
   nobody else. *)
C6_RelayToOthers ==
  Handled(MutationTypes) =>
    \A s \in ConnIds :
      outbox[s] = IF s \in DOMAIN pre.sessions /\ s # last.from
                  THEN Append(pre.outbox[s], Envelope(last.msg, handled, last.from))
                  ELSE pre.outbox[s]

C6_Witness ==
  /\ Handled(MutationTypes)
  /\ \E s \in DOMAIN sessions : s # last.from

(* C7: a tab added by tab-create and not removed since is in sync.state.tabs
   of every session that connects afterwards, with the title and the content
   last written to it, also after an actor restart. *)
C7_CreatedTabInLaterSync ==
  last.kind = "connect" =>
    \A t \in TabIds :
      written[t] # NoTab =>
        /\ LastSync.state # NoDoc
        /\ \E i \in 1..Len(LastSync.state.tabs) :
             LastSync.state.tabs[i].id = t /\ LastSync.state.tabs[i].title = written[t].title
        /\ \E i \in 1..Len(LastSync.state.tabs) :
             LastSync.state.tabs[i].id = t /\ LastSync.state.tabs[i].content = written[t].content

(* C8: reloading the room from its persisted records yields the tabs of the
   state held in memory before the restart, in the same order, each with the
   same id, title, content and hidden status, and the same activeTabId,
   tabCounter and LayoutState. *)
SameTab(a, b) ==
  /\ a.id = b.id /\ a.title = b.title /\ a.content = b.content
  /\ Truthy(a.hidden) = Truthy(b.hidden)

SameDocument(a, b) ==
  IF a = NoDoc \/ b = NoDoc THEN a = b
  ELSE /\ Len(a.tabs) = Len(b.tabs)
       /\ \A i \in 1..Len(a.tabs) : SameTab(a.tabs[i], b.tabs[i])
       /\ a.activeTabId = b.activeTabId
       /\ a.tabCounter = b.tabCounter

C8_RestartPreservesState ==
  last.kind = "restart" =>
    /\ SameDocument(documentState, pre.doc)
    /\ layoutState = pre.layout

(* C9: a tab created by tab-create with isPreview and sourceTabId is in
   sync.state.tabs of a session that connects afterwards with the same
   isPreview and sourceTabId. *)
C9_PreviewLinkageStored ==
  last.kind = "connect" =>
    \A t \in TabIds :
      (written[t] # NoTab /\ written[t].isPreview = JTRUE) =>
        /\ LastSync.state # NoDoc
        /\ \E i \in 1..Len(LastSync.state.tabs) :
             /\ LastSync.state.tabs[i].id = t
             /\ LastSync.state.tabs[i].isPreview = JTRUE
             /\ LastSync.state.tabs[i].sourceTabId = written[t].sourceTabId

(* C10: tab-hide(T) followed by tab-restore(T) on an existing tab T leaves
   DocumentState as it was before the hide, except that T's hidden is false:
   same content, title and position for T, every other tab unchanged. *)
C10_HideRestoreRoundTrip ==
  roundTrip # NoTrip =>
    LET i == FindTab(roundTrip.before.tabs, roundTrip.tabId)
    IN /\ documentState = [roundTrip.before EXCEPT !.tabs[i].hidden = JFALSE]
       /\ documentState.tabs[i].hidden = JFALSE

C10_Witness ==
  /\ roundTrip # NoTrip
  /\ Len(documentState.tabs) > 1
  /\ FindTab(documentState.tabs, roundTrip.tabId) = 1

(* C11: handling the same full-sync payload twice in a row leaves
   DocumentState and the persisted document records as they were after the
   first handling. *)
C11_FullSyncIdempotent ==
  repeated =>
    /\ documentState = pre.doc
    /\ documentState = last.msg.state
    /\ db.document_state = pre.db.document_state
    /\ db.tabs = pre.db.tabs

C11_Witness ==
  /\ repeated
  /\ Len(documentState.tabs) > 1
  /\ db.tabs # {}

(* C12: handling layout-update changes only LayoutState and its persisted
   row: DocumentState and the persisted document records stay as they were;
   handling tab-update, tab-create, tab-close, tab-hide, tab-restore,
   tab-rename or full-sync leaves LayoutState and its persisted row as they
   were. *)
C12_LayoutDocumentIndependent ==
  /\ Handled({"layout-update"}) =>
       /\ documentState = pre.doc
       /\ db.document_state = pre.db.document_state
       /\ db.tabs = pre.db.tabs
       /\ sessions = pre.sessions
       /\ layoutState = [layout |-> last.msg.layout, panes |-> last.msg.panes]
  /\ Handled(MutationTypes \ {"layout-update"}) =>
       /\ layoutState = pre.layout
       /\ db.layout_state = pre.db.layout_state

C12_Witness ==
  /\ Handled({"layout-update"})
  /\ Len(last.msg.panes) > 1
  /\ pre.layout # NoLayout
  /\ pre.layout # layoutState
  /\ pre.doc # NoDoc
  /\ \E r \in db.tabs : r.id = "t2"

C12_WitnessDocument ==
  /\ Handled({"full-sync"})
  /\ pre.layout # NoLayout
  /\ db.layout_state # <<>>

\* what the room has sent on socket s since the last room event began
SentByLast(s) == SubSeq(outbox[s], Len(pre.outbox[s]) + 1, Len(outbox[s]))

\* the session ids an awareness message or a sync names in its table
TableIds(message) ==
  CASE message.type = "awareness" -> DOMAIN message.clients
    [] message.type = "sync" -> DOMAIN message.awareness
    [] OTHER -> {}

\* the awareness messages the room has sent on socket s, oldest first
AwarenessSent(s) == SelectSeq(outbox[s], LAMBDA e : e.msg.type = "awareness")

\* every accepted socket is open and registered, and its session has sent an
\* awareness message that the room handled
AllSentAwareness ==
  /\ DOMAIN sessions # {}
  /\ \A s \in ConnIds :
       sockets[s] # "none" =>
         /\ sockets[s] = "open"
         /\ s \in DOMAIN sessions
         /\ sessions[s].tabId # UNDEF

(* C13: after N sessions are connected to one room and each has sent at least
   one awareness message, the awareness table each session last received from
   the room has exactly N-1 entries: one for every other session and none for
   itself. *)
C13_AwarenessTableOthersOnly ==
  AllSentAwareness =>
    \A s \in DOMAIN sessions :
      /\ AwarenessSent(s) # <<>>
      /\ LET table == AwarenessSent(s)[Len(AwarenessSent(s))].msg.clients
         IN /\ DOMAIN table = DOMAIN sessions \ {s}
            /\ Cardinality(DOMAIN table) = Cardinality(DOMAIN sessions) - 1

C13_Witness ==
  /\ AllSentAwareness
  /\ Cardinality(DOMAIN sessions) = 2
  /\ \A s \in DOMAIN sessions : AwarenessSent(s) # <<>>

\* what the room sends instead: the whole table, the receiver's entry included
C13_WholeTable ==
  AllSentAwareness =>
    \A s \in DOMAIN sessions :
      /\ AwarenessSent(s) # <<>>
      /\ DOMAIN AwarenessSent(s)[Len(AwarenessSent(s))].msg.clients = DOMAIN sessions

(* C14: when a session's connection ends (socket close or socket error), the
   room removes it from the registry and sends every remaining session an
   awareness table without the departed session's id; no awareness table or
   sync sent afterwards names a session that is not registered. *)
C14_DisconnectCleanup ==
  /\ (last.kind \in {"close", "error"} /\ last.id \in DOMAIN pre.sessions) =>
       /\ last.id \notin DOMAIN sessions
       /\ \A s \in DOMAIN sessions :
            /\ Len(SentByLast(s)) = 1
            /\ SentByLast(s)[1].msg.type = "awareness"
            /\ DOMAIN SentByLast(s)[1].msg.clients = DOMAIN pre.sessions \ {last.id}
  /\ last.kind # "init" =>
       \A s \in ConnIds : \A i \in 1..Len(SentByLast(s)) :
         TableIds(SentByLast(s)[i].msg) \subseteq DOMAIN sessions

C14_Witness ==
  /\ last.kind = "error"
  /\ last.id \in DOMAIN pre.sessions
  /\ DOMAIN sessions # {}

\* the part of C14 that is about a socket's close event
C14_OnClose ==
  (last.kind = "close" /\ last.id \in DOMAIN pre.sessions) =>
    /\ last.id \notin DOMAIN sessions
    /\ \A s \in DOMAIN sessions :
         /\ Len(SentByLast(s)) = 1
         /\ SentByLast(s)[1].msg.type = "awareness"
         /\ DOMAIN SentByLast(s)[1].msg.clients = DOMAIN pre.sessions \ {last.id}

(* C15: handling an awareness message changes only the sending session's
   tabId, cursor and selection (no other session's fields, no DocumentState,
   no LayoutState, nothing persisted) and then sends one awareness message
   containing the entry of every registered session to every registered
   session, the sender included. *)
C15_AwarenessFrameAndBroadcast ==
  Handled({"awareness"}) =>
    /\ documentState = pre.doc
    /\ layoutState = pre.layout
    /\ db = pre.db
    /\ DOMAIN sessions = DOMAIN pre.sessions
    /\ \A id \in DOMAIN sessions :
         sessions[id] = IF id = last.from
                        THEN [pre.sessions[id] EXCEPT !.tabId = last.msg.tabId,
                                                      !.cursor = last.msg.cursor,
                                                      !.selection = last.msg.selection]
                        ELSE pre.sessions[id]
    /\ \A s \in ConnIds :
         IF s \in DOMAIN sessions
         THEN /\ Len(SentByLast(s)) = 1
              /\ SentByLast(s)[1].msg.type = "awareness"
              /\ DOMAIN SentByLast(s)[1].msg.clients = DOMAIN sessions
              /\ \A id \in DOMAIN sessions :
                   SentByLast(s)[1].msg.clients[id] =
                     [color |-> sessions[id].color, tabId |-> sessions[id].tabId,
                      cursor |-> sessions[id].cursor, selection |-> sessions[id].selection]
         ELSE outbox[s] = pre.outbox[s]

C15_Witness ==
  /\ Handled({"awareness"})
  /\ Cardinality(DOMAIN sessions) = 2
  /\ \E id \in DOMAIN sessions : sessions[id].tabId = UNDEF
  /\ documentState # NoDoc

(* C16: on connect the room registers a new session and sends it exactly one
   sync message carrying the current DocumentState, the current LayoutState,
   the session's new client id and the awareness entries of all other
   registered sessions (not its own); connecting changes no DocumentState, no
   LayoutState, no other session's fields and no persisted data. *)
C16_ConnectSendsSnapshot ==
  last.kind = "connect" =>
    /\ last.id \notin DOMAIN pre.sessions
    /\ DOMAIN sessions = DOMAIN pre.sessions \cup {last.id}
    /\ \A id \in DOMAIN pre.sessions : sessions[id] = pre.sessions[id]
    /\ documentState = pre.doc
    /\ layoutState = pre.layout
    /\ db = pre.db
    /\ \A s \in ConnIds : s # last.id => outbox[s] = pre.outbox[s]
    /\ Len(outbox[last.id]) = 1
    /\ LastSync.type = "sync"
    /\ LastSync.state = documentState
    /\ LastSync.layout = layoutState
    /\ LastSync.clientId = last.id
    /\ DOMAIN LastSync.awareness = DOMAIN pre.sessions
    /\ \A id \in DOMAIN pre.sessions :
         LastSync.awareness[id] =
           [color |-> sessions[id].color, tabId |-> sessions[id].tabId,
            cursor |-> sessions[id].cursor, selection |-> sessions[id].selection]

C16_Witness ==
  /\ last.kind = "connect"
  /\ \E id \in DOMAIN pre.sessions : pre.sessions[id].tabId # UNDEF
  /\ documentState # NoDoc
  /\ layoutState # NoLayout

\* the messages on their way to the room that socket s did not carry before
\* the step
Transmitted(s) ==
  IF Len(inbox'[s]) > Len(inbox[s])
  THEN SubSeq(inbox'[s], Len(inbox[s]) + 1, Len(inbox'[s]))
  ELSE <<>>

(* C17: every message a client transmits carries a from field equal to the
   client id the room assigned to the session of the connection the message
   is transmitted on; after a reconnect the client never transmits a message
   tagged with the id of its previous session. *)
C17_FromIsSessionId ==
  \A s \in ConnIds : \A i \in 1..Len(inbox[s]) : inbox[s][i].from = s

C17_Witness ==
  \E c \in Clients :
    /\ client[c].connected
    /\ client[c].socket = 2
    /\ client[c].clientId = 1
    /\ inbox[2] # <<>>

\* the part of C17 that is about a client's first connection
C17_FirstConnection ==
  \A c \in Clients :
    (client[c].connected /\ client[c].clientId = client[c].socket) =>
      \A i \in 1..Len(inbox[client[c].socket]) :
        inbox[client[c].socket][i].from = client[c].socket

(* C18: while a client has not yet received any sync message (its client id
   is unset), every send call transmits nothing, and the dropped message is
   not buffered: a socket carries a new message only in the step of a send
   call made with the client id set, and then only that call's message. *)
C18_NoSendBeforeClientId ==
  [][\A c \in Clients :
       LET s == client[c].socket
       IN s # 0 =>
            /\ client[c].clientId = 0 => Transmitted(s) = <<>>
            /\ Transmitted(s) # <<>> =>
                 /\ ops' = ops + 1
                 /\ Len(Transmitted(s)) = 1]_vars

C18_Witness ==
  /\ ops = MaxMsgs
  /\ \E c \in Clients : client[c].connected
  /\ \A c \in Clients : client[c].clientId = 0
  /\ \A s \in ConnIds : inbox[s] = <<>>
  /\ handled = 0

\* the step is socket.onmessage of browser c taking a message of one of the
\* given types
Receives(c, types) ==
  LET s == client[c].socket
  IN /\ client[c].connected
     /\ outbox[s] # <<>>
     /\ Head(outbox[s]).msg.type \in types
     /\ outbox'[s] = Tail(outbox[s])
     /\ Len(taken'[s]) = Len(taken[s]) + 1

\* id, title, content and hidden status of every tab of a list
TabFacts(tabs) ==
  {<<tabs[i].id, tabs[i].title, tabs[i].content, Truthy(tabs[i].hidden)>> : i \in 1..Len(tabs)}

\* the editor's tabs are the tabs of the state, one for one
LocalEquals(cl, state) ==
  LET local == LocalTabs(cl.panes)
      remote == IF state = NoDoc THEN <<>> ELSE state.tabs
  IN /\ Len(local) = Len(remote)
     /\ TabFacts(local) = TabFacts(remote)

(* C19: after a client processes the sync message of a new connection (first
   connect or reconnect), its local tabs (ids, titles, contents, hidden
   status) equal the document state carried by that sync, whatever the client
   held before; processing the sync transmits nothing. *)
C19_SyncSupersedesLocal ==
  [][\A c \in Clients :
       Receives(c, {"sync"}) =>
         /\ LocalEquals(client'[c], Head(outbox[client[c].socket]).msg.state)
         /\ Transmitted(client[c].socket) = <<>>]_vars

C19_Witness ==
  \E c \in Clients :
    /\ Synced(c)
    /\ client[c].socket = 2
    /\ Len(taken[2]) = 1
    /\ outbox[2] = <<>>
    /\ inbox[2] = <<>>
    /\ handled > 0
    /\ documentState # NoDoc
    /\ \E i \in 1..Len(documentState.tabs) : Truthy(documentState.tabs[i].hidden)

\* the part of C19 that is about a sync whose state has no hidden tab and
\* carries no layout
C19_NothingHidden ==
  [][\A c \in Clients :
       LET sync == Head(outbox[client[c].socket]).msg
       IN (/\ Receives(c, {"sync"})
           /\ sync.layout = NoLayout
           /\ sync.state # NoDoc
           /\ Len(sync.state.tabs) > 0
           /\ \A i \in 1..Len(sync.state.tabs) : ~Truthy(sync.state.tabs[i].hidden)) =>
            /\ LocalEquals(client'[c], sync.state)
            /\ Transmitted(client[c].socket) = <<>>]_vars

(* C20: while a client applies an inbound sync, full-sync, tab-update,
   tab-create, tab-close, tab-hide, tab-restore, tab-rename or layout-update
   to its local state, it transmits no message: applying a remote change
   never sends that change back upstream. *)
C20_NoEchoOfRemoteChange ==
  [][\A c \in Clients :
       Receives(c, MutationTypes \cup {"sync"}) => \A s \in ConnIds : inbox'[s] = inbox[s]]_vars

C20_Witness ==
  \E c \in Clients :
    LET s == client[c].socket
    IN /\ Synced(c)
       /\ \E i \in 1..Len(taken[s]) : taken[s][i].seq > 0 /\ taken[s][i].applied
       /\ inbox[s] = <<>>
       /\ \E i \in 1..Len(LocalTabs(client[c].panes)) :
            LocalTabs(client[c].panes)[i].content \in EditContents

(* C21: a client handles each inbound message that is not from itself exactly
   once and in the order its socket received them: socket.onmessage takes the
   oldest message the room has sent and the client has not yet taken, runs the
   handler of its type on it once, and takes nothing else in the same step. *)
C21_EachMessageOnceInOrder ==
  [][\A c \in Clients :
       LET s == client[c].socket
           envelope == Head(outbox[s])
       IN Receives(c, MutationTypes \cup {"sync", "awareness"}) =>
            /\ taken'[s] = Append(taken[s], [seq |-> envelope.seq, origin |-> envelope.origin,
                                             own |-> envelope.origin = s,
                                             applied |-> envelope.origin # s])
            /\ envelope.origin # s =>
                 client'[c] = HandleServerMessage(client[c], envelope.msg)
            /\ \A r \in ConnIds \ {s} : outbox'[r] = outbox[r] /\ taken'[r] = taken[r]]_vars

C21_Witness ==
  \E c \in Clients :
    LET s == client[c].socket
    IN /\ Synced(c)
       /\ Len(taken[s]) >= 3
       /\ \A i \in 1..Len(taken[s]) : taken[s][i].applied
       /\ \E i, j \in 1..Len(taken[s]) :
            i < j /\ taken[s][i].seq > 0 /\ taken[s][j].seq = 0
       /\ outbox[s] = <<>>

\* reconnect attempts started since the last open: the timers set, less the
\* one that has not fired yet
Used(cl) == cl.scheduled - (IF cl.reconnectTimeout # 0 THEN 1 ELSE 0)

GaveUp(cl) ==
  cl.readyState = "closed" /\ cl.reconnectTimeout = 0 /\ cl.scheduled = maxReconnectAttempts

(* C22: once 10 reconnect attempts have been scheduled without a successful
   open in between, the client schedules no further attempt: no step sets an
   11th timer, and a client whose 10th attempt has failed stays as it is in
   every later step. *)
C22_BoundedRetries ==
  [][\A c \in Clients :
       /\ client'[c].scheduled > client[c].scheduled => client[c].scheduled < 10
       /\ GaveUp(client[c]) => client'[c] = client[c]]_vars

C22_Witness ==
  \E c \in Clients : GaveUp(client[c]) /\ client[c].reconnectAttempts = 10

(* C23: whenever a client's connection is closed and fewer than 10 consecutive
   reconnect attempts have been used, a reconnect timer is pending and the
   client eventually starts a new connection attempt: it is never stuck in
   Closed with attempts remaining. *)
C23_EventuallyRetries ==
  /\ [](\A c \in Clients :
          (client[c].readyState = "closed" /\ Used(client[c]) < 10) =>
            client[c].reconnectTimeout # 0)
  /\ \A c \in Clients :
       (client[c].readyState = "closed" /\ Used(client[c]) < 10) ~>
         (client[c].readyState = "connecting")

C23_Witness ==
  \E c \in Clients :
    /\ client[c].readyState = "connecting"
    /\ client[c].socket # 0
    /\ sockets[client[c].socket] = "closed"
    /\ Used(client[c]) = 2

(* C24: the delay before the k-th consecutive reconnect attempt (k counted
   from 0) is min(1000 * 2^k, 30000) milliseconds: 1000, 2000, 4000, 8000,
   16000 and from then on 30000. *)
C24_BackoffDelay ==
  \A c \in Clients :
    client[c].reconnectTimeout # 0 =>
      /\ client[c].scheduled \in 1..10
      /\ client[c].reconnectTimeout =
           <<1000, 2000, 4000, 8000, 16000, 30000, 30000, 30000, 30000, 30000>>[client[c].scheduled]

C24_Witness ==
  \E c \in Clients : client[c].scheduled = 6 /\ client[c].reconnectTimeout = 30000

\* the room has just handled a message of a known type, or a close event,
\* while a session that the broadcast sends to had a socket whose send throws
FailedSendTo ==
  {r \in DOMAIN sessions :
     /\ Throws(r)
     /\ \/ last.kind = "close"
        \/ /\ last.kind = "message" /\ ~last.dropped /\ last.msg.type \in KnownTypes
           /\ (r # last.from \/ last.msg.type = "awareness")}

(* C25: when the send to one session throws during a broadcast or an
   awareness broadcast, every other intended recipient is still sent the
   message, the mutation is applied and persisted as it is without the
   failure, and the sender is sent nothing about it. *)
C25_SendFailureIsolated ==
  FailedSendTo # {} =>
    /\ \A s \in FailedSendTo : outbox[s] = pre.outbox[s]
    /\ last.kind = "close" =>
         \A s \in DOMAIN sessions \ FailedSendTo :
           /\ Len(outbox[s]) = Len(pre.outbox[s]) + 1
           /\ outbox[s][Len(outbox[s])].msg.type = "awareness"
           /\ DOMAIN outbox[s][Len(outbox[s])].msg.clients = DOMAIN sessions
    /\ (last.kind = "message" /\ last.msg.type = "awareness") =>
         /\ \A s \in DOMAIN sessions \ FailedSendTo :
              /\ Len(outbox[s]) = Len(pre.outbox[s]) + 1
              /\ outbox[s][Len(outbox[s])].msg.type = "awareness"
              /\ DOMAIN outbox[s][Len(outbox[s])].msg.clients = DOMAIN sessions
         /\ sessions[last.from].tabId = last.msg.tabId
         /\ sessions[last.from].cursor = last.msg.cursor
    /\ (last.kind = "message" /\ last.msg.type \in MutationTypes) =>
         /\ \A s \in DOMAIN sessions \ (FailedSendTo \cup {last.from}) :
              outbox[s] = Append(pre.outbox[s], Envelope(last.msg, handled, last.from))
         /\ outbox[last.from] = pre.outbox[last.from]
         /\ IF last.msg.type = "layout-update"
            THEN /\ layoutState = [layout |-> last.msg.layout, panes |-> last.msg.panes]
                 /\ db = PersistLayout(layoutState, pre.db)
                 /\ documentState = pre.doc
            ELSE /\ documentState = DocumentCase(pre.doc, last.msg).doc
                 /\ db = IF DocumentCase(pre.doc, last.msg).persist
                         THEN PersistState(documentState, pre.db)
                         ELSE pre.db
                 /\ layoutState = pre.layout

\* an awareness broadcast in which the first registered session could not be
\* sent to and the second one was
C25_Witness ==
  /\ FailedSendTo = {1}
  /\ last.kind = "message" /\ last.msg.type = "awareness" /\ last.from = 2
  /\ Len(outbox[2]) = Len(pre.outbox[2]) + 1

\* a tab-create whose only recipient could not be sent to: the tab is stored
C25_WitnessMutation ==
  /\ FailedSendTo # {}
  /\ last.kind = "message" /\ last.msg.type = "tab-create"
  /\ documentState # pre.doc
  /\ db # pre.db

\* the room has just taken a frame that is no ClientMessage from a registered
\* session
Malformed(frames) ==
  /\ last.kind = "message"
  /\ ~last.dropped
  /\ last.msg \in frames

\* the frame changed nothing and was sent to no one, and its socket and
\* session are as they were
DroppedByRoom ==
  /\ documentState = pre.doc
  /\ layoutState = pre.layout
  /\ db = pre.db
  /\ sessions = pre.sessions
  /\ outbox = pre.outbox
  /\ sockets[last.from] = "open"
  /\ last.from \in DOMAIN sessions

(* C26: a frame that fails JSON parsing or has an unrecognized shape is
   dropped by the room: it changes no DocumentState, LayoutState, awareness
   field or persisted data, it is broadcast to no one, and the connection
   stays open and the session registered. *)
C26_MalformedDropped ==
  Malformed(MalformedMsgs(last.from)) => DroppedByRoom

C26_Witness ==
  /\ Malformed({[type |-> "full-sync", state |-> NoDoc, from |-> last.from]})
  /\ pre.doc # NoDoc
  /\ Len(pre.doc.tabs) > 0
  /\ documentState = NoDoc
  /\ \E s \in DOMAIN sessions : outbox[s] # pre.outbox[s]

\* the part of C26 that is about text that is not JSON and about a message
\* of no known type
C26_NotJsonOrUnknownType ==
  Malformed({NotJson, [type |-> "ping", from |-> last.from]}) => DroppedByRoom

C26_WitnessDropped ==
  /\ Malformed({NotJson})
  /\ pre.doc # NoDoc
  /\ Cardinality(DOMAIN sessions) = 2

(* C27: after /new or /new/{filename} has handled a request, the room of the
   new space holds an initialized DocumentState, with a default tab that is
   titled with the requested filename when one is given, so the first session
   that connects to the space is sent a sync whose state is not null. *)
C27_NewSpaceInitialized ==
  (last.kind = "connect" /\ last.id = 1 /\ restarts = 0) =>
    /\ LastSync.state # NoDoc
    /\ Len(LastSync.state.tabs) > 0

C27_Witness ==
  /\ last.kind = "connect" /\ last.id = 1 /\ restarts = 0
  /\ handled = 0
  /\ documentState = NoDoc
  /\ db = EmptyDb
  /\ LastSync.state = NoDoc

(* C28: a client never transmits a full-sync message: not when its connection
   opens, not when it reconnects, and not when it takes a sync or any other
   message from the room.  It never pushes its own document state. *)
C28_NoFullSyncFromClient ==
  \A s \in ConnIds : \A i \in 1..Len(inbox[s]) : inbox[s][i].type # "full-sync"

\* a browser that reconnected while it held tabs and has taken the sync of
\* its second connection
C28_Witness ==
  \E c \in Clients :
    /\ Synced(c)
    /\ client[c].socket = 2
    /\ \A d \in Clients \ {c} : client[d].socket = 0
    /\ taken[1] # <<>>
    /\ taken[2] # <<>>
    /\ Len(LocalTabs(client[c].panes)) > 0

(* C29: tab ids are unique within the room's store: in every reachable state
   no two tab records have the same id, whatever tab-create and full-sync
   messages were handled. *)
C29_TabIdsUnique ==
  documentState # NoDoc =>
    \A i, j \in 1..Len(documentState.tabs) :
      i # j => documentState.tabs[i].id # documentState.tabs[j].id

\* a tab-create for an id the store holds already has just been handled
C29_Witness ==
  /\ Handled({"tab-create"})
  /\ pre.doc # NoDoc
  /\ last.msg.tabId \in TabIdsOf(pre.doc)
  /\ Len(documentState.tabs) = Len(pre.doc.tabs) + 1
  /\ Cardinality(TabIdsOf(documentState)) < Len(documentState.tabs)

(* C30: the references of the store resolve: activeTabId is none or the id of
   a tab record, and every sourceTabId a stored tab holds is the id of a tab
   record; a tab-close of the active tab does not leave activeTabId
   dangling. *)
C30_ReferencesResolve ==
  documentState # NoDoc =>
    /\ IsSet(documentState.activeTabId) =>
         documentState.activeTabId \in TabIdsOf(documentState)
    /\ \A i \in 1..Len(documentState.tabs) :
         IsSet(documentState.tabs[i].sourceTabId) =>
           documentState.tabs[i].sourceTabId \in TabIdsOf(documentState)

\* a tab-close of the active tab has just been handled
C30_Witness ==
  /\ Handled({"tab-close"})
  /\ pre.doc # NoDoc
  /\ pre.doc.activeTabId = last.msg.tabId
  /\ last.msg.tabId \in TabIdsOf(pre.doc)
  /\ last.msg.tabId \notin TabIdsOf(documentState)
  /\ documentState.activeTabId = last.msg.tabId

\* the tab counter of a document state; a room without a state has handed
\* out no number
CounterOf(doc) == IF doc = NoDoc THEN 0 ELSE doc.tabCounter

(* C31: the room's tabCounter is monotonic: after each handled message
   DocumentState.tabCounter is greater than or equal to its value before
   that message. *)
C31_TabCounterMonotonic ==
  Handled(MutationTypes \cup {"awareness"}) => CounterOf(documentState) >= CounterOf(pre.doc)

\* a full-sync that carries a smaller counter than the store held
C31_Witness ==
  /\ Handled({"full-sync"})
  /\ pre.doc # NoDoc
  /\ pre.doc.tabCounter = 2
  /\ documentState.tabCounter = 0

\* the part of C31 that is about every message but full-sync
C31_ExceptFullSync ==
  Handled((MutationTypes \cup {"awareness"}) \ {"full-sync"}) =>
    CounterOf(documentState) = CounterOf(pre.doc)

C31_WitnessKept ==
  /\ Handled({"tab-create"})
  /\ pre.doc # NoDoc
  /\ pre.doc.tabCounter = 2
  /\ documentState.tabCounter = 2

TabTypes == {"tab-update", "tab-create", "tab-close", "tab-hide", "tab-restore", "tab-rename"}

\* the ids of a tab list, in its order
IdSeq(tabs) == [i \in 1..Len(tabs) |-> tabs[i].id]

IdsInMemory(doc) == IF doc = NoDoc THEN <<>> ELSE IdSeq(doc.tabs)

\* the ids of the stored rows, in the order loadState reads them
StoredIds(store) == IdSeq(OrderBySortOrder(store.tabs))

\* a sequence of ids without one id
Without(ids, tabId) == SelectSeq(ids, LAMBDA x : x # tabId)

(* C32: tab order is stable: tab-create places the new tab after all existing
   tabs, tab-close removes only the named tab, and tab-update, tab-hide,
   tab-restore and tab-rename keep every tab at its position; no tab message
   changes the relative order of the other tabs, in memory or in the
   persisted sort order. *)
C32_TabOrderStable ==
  Handled(TabTypes) =>
    LET t == last.msg.tabId
        before == IdsInMemory(pre.doc)
        after == IdsInMemory(documentState)
    IN /\ CASE last.msg.type = "tab-create" -> after = Append(before, t)
              [] last.msg.type = "tab-close" -> after = Without(before, t)
              [] OTHER -> after = before
       /\ Without(StoredIds(db), t) = Without(StoredIds(pre.db), t)
       /\ last.msg.type = "tab-create" =>
            StoredIds(db) = Append(Without(StoredIds(pre.db), t), t)
       /\ last.msg.type \notin {"tab-create", "tab-close"} => StoredIds(db) = StoredIds(pre.db)

\* a message about one of three stored tabs has been handled, the other two
\* being stored before and after
C32_Witness ==
  /\ Handled({"tab-close", "tab-hide"})
  /\ Len(StoredIds(pre.db)) = 3
  /\ Len(Without(StoredIds(db), last.msg.tabId)) = 2
  /\ last.msg.tabId \in TabIdsOf(pre.doc)
  /\ db # pre.db

\* the content browser cl holds for a tab id (NoTab when it holds no such tab)
LocalContent(cl, tabId) ==
  LET p == PaneOf(cl.panes, tabId)
  IN IF p = 0 THEN NoTab
     ELSE [content |-> cl.panes[p].tabs[FindTab(cl.panes[p].tabs, tabId)].content]

(* C33: when a client applies an inbound tab-update that carries a title but
   no content, the local content of that tab is left unchanged, as it is in
   the room's store. *)
C33_TitleOnlyKeepsContent ==
  [][\A c \in Clients :
       LET message == Head(outbox[client[c].socket]).msg
       IN (/\ Receives(c, {"tab-update"})
           /\ message.content = UNDEF
           /\ message.title # UNDEF
           /\ message.from # client[c].clientId) =>
            LocalContent(client'[c], message.tabId) = LocalContent(client[c], message.tabId)]_vars

\* a browser has applied a relayed title-only tab-update to t1: the room
\* holds the new title and the old content, the browser the new title and
\* no content
C33_Witness ==
  \E c \in Clients :
    /\ Synced(c)
    /\ \E i \in 1..Len(taken[client[c].socket]) :
         taken[client[c].socket][i].seq > 0 /\ taken[client[c].socket][i].applied
    /\ LocalContent(client[c], "t1") = [content |-> ""]
    /\ documentState # NoDoc
    /\ FindTab(documentState.tabs, "t1") # 0
    /\ documentState.tabs[FindTab(documentState.tabs, "t1")].content = "a"
    /\ documentState.tabs[FindTab(documentState.tabs, "t1")].title = "y"
    /\ Len(documentState.tabs) = Cardinality(TabIdsOf(documentState))

\* the colors of the sessions of a registry
ColorsOf(registry) == {registry[id].color : id \in DOMAIN registry}

(* C34: session colors avoid collisions: when a session connects and at least
   one color of the palette is assigned to no currently connected session,
   the new session is assigned a color that no currently connected session
   has. *)
C34_ColorsAvoidCollisions ==
  (last.kind = "connect" /\ Palette \ ColorsOf(pre.sessions) # {}) =>
    sessions[last.id].color \notin ColorsOf(pre.sessions)

\* a second session has connected and was given the color of the first,
\* the other color of the palette being free
C34_Witness ==
  /\ last.kind = "connect"
  /\ DOMAIN pre.sessions = {1}
  /\ DOMAIN sessions = {1, 2}
  /\ sessions[1].color = sessions[2].color
  /\ Palette \ ColorsOf(pre.sessions) # {}

(* C35: after destroy() has been called on a client, no step of that client
   starts another connection attempt, also when the close event of the
   socket that destroy() closed is delivered after destroy() returned. *)
C35_DestroyedStaysDown ==
  [][\A c \in Clients :
       client[c].destroyed =>
         ~(client[c].readyState # "connecting" /\ client'[c].readyState = "connecting")]_vars

\* a destroyed client is registered in the room again
C35_Witness ==
  \E c \in Clients :
    /\ client[c].destroyed
    /\ client[c].readyState = "open"
    /\ client[c].socket \in DOMAIN sessions

(* C37: a client whose socket is open has its attempt counter at 0, and the
   disconnect that follows an open arms a timer of 1000 ms and counts as the
   first of 10 attempts, however many attempts failed before that open. *)
C37_OpenResetsAttempts ==
  /\ [](\A c \in Clients : client[c].readyState = "open" => client[c].reconnectAttempts = 0)
  /\ [][\A c \in Clients :
          (client[c].readyState = "open" /\ client'[c].readyState = "closed") =>
            /\ client'[c].reconnectTimeout = 1000
            /\ client'[c].reconnectAttempts = 1]_vars

\* the open followed failed attempts, and after it was lost the client used
\* all 10 attempts again
C37_Witness ==
  \E c \in Clients :
    /\ client[c].afterFailures
    /\ sockets[client[c].socket] = "closed"
    /\ GaveUp(client[c])
    /\ client[c].reconnectAttempts = 10

(* C38: at any time a client has at most one socket that is connecting or
   open and at most one pending reconnect timer. *)
C38_OneSocketOneTimer ==
  \A c \in Clients : client[c].live <= 1 /\ client[c].timers <= 1

\* a client that was opened, destroyed, and whose attempts then failed is
\* connecting for the third time since
C38_Witness ==
  \E c \in Clients :
    /\ client[c].destroyed
    /\ client[c].live = 1
    /\ client[c].timers = 0
    /\ client[c].scheduled = 3

(* C36: when a client has finished handling an inbound message, also one
   whose handler raised, its isRemoteUpdate flag is cleared, so that the
   next local edit is handed to the sync client. *)
C36_FlagCleared == \A c \in Clients : ~client[c].isRemoteUpdate

\* a connected client typed "c" after a handler had raised, and nothing
\* went out: no queue holds a message and the room never saw the text
C36_Witness ==
  \E c \in Clients :
    /\ client[c].isRemoteUpdate
    /\ client[c].connected
    /\ client[c].clientId # 0
    /\ \E i \in 1..Len(LocalTabs(client[c].panes)) :
         LocalTabs(client[c].panes)[i].content = "c"
    /\ \A s \in ConnIds : inbox[s] = <<>> /\ outbox[s] = <<>>
    /\ documentState # NoDoc
    /\ \A i \in 1..Len(documentState.tabs) : documentState.tabs[i].content # "c"

(* C39: a tab-update, tab-hide, tab-restore, tab-rename or tab-close that
   names a tab the room does not hold leaves the store as it was and is
   still sent, unchanged, to every registered session other than the sender. *)
C39_RelayWithoutMutation ==
  (Handled({"tab-update", "tab-hide", "tab-restore", "tab-rename", "tab-close"})
     /\ last.msg.tabId \notin TabIdsOf(pre.doc)) =>
    /\ documentState = pre.doc
    /\ \A s \in DOMAIN pre.sessions \ {last.from} :
         /\ Len(outbox[s]) = Len(pre.outbox[s]) + 1
         /\ outbox[s][Len(outbox[s])].msg = last.msg

\* the store holds tabs, none of them the one named, and a peer is connected
C39_Witness ==
  /\ Handled({"tab-close", "tab-rename"})
  /\ pre.doc # NoDoc
  /\ TabIdsOf(pre.doc) # {}
  /\ last.msg.tabId \notin TabIdsOf(pre.doc)
  /\ \E s \in DOMAIN pre.sessions : s # last.from /\ outbox[s] # pre.outbox[s]

(* C40: a message that arrives on a socket whose session the error listener
   has removed changes neither DocumentState nor LayoutState nor any
   session's awareness fields, writes nothing to storage and is sent to no
   session. *)
C40_ErroredSocketIgnored ==
  (last.kind = "message" /\ sockets[last.from] = "errored") =>
    /\ last.dropped
    /\ documentState = pre.doc
    /\ layoutState = pre.layout
    /\ sessions = pre.sessions
    /\ db = pre.db
    /\ outbox = pre.outbox

\* the message is one the room would have acted on, and a peer is registered
\* to whom it would have been relayed
C40_Witness ==
  /\ last.kind = "message"
  /\ sockets[last.from] = "errored"
  /\ last.msg.type \in {"tab-create", "full-sync", "layout-update", "awareness"}
  /\ \E s \in DOMAIN sessions : s # last.from

====
